---- MODULE Spec2Model ----
(***************************************************************************)
(* A model of the OMML-to-LaTeX converter (src/omml_to_latex.py) and of    *)
(* the places of the document driver (src/docx2md.py) that consume it.     *)
(*                                                                         *)
(* Strings are sequences of characters.  An ASCII character is the TLA+    *)
(* string of length one that holds it; a non-ASCII character is the string *)
(* "uXXXX" of its code point (U+2208, the element-of sign, is "u2208").    *)
(* Regular expressions are data (sequences of items) interpreted by a      *)
(* backtracking matcher with Python's semantics: leftmost match, greedy    *)
(* quantifiers, non-overlapping substitution from left to right.           *)
(***************************************************************************)
EXTENDS Integers, Sequences, FiniteSets, TLC

VARIABLES
  element,  \* the element an entry point is called on
  pc,       \* "idle" before the call, then "converted" or "returned"
  ret,      \* what the call returned or raised
  cur,      \* the string the text-level passes work on
  prev,     \* the string before the last pass
  pass,     \* the pass that has been applied ("" before the first)
  runs,     \* how many times it has been applied
  doc,               \* the document the driver converts
  block,             \* the index of the next block of the document
  md_content,        \* the lines of the markdown output so far
  image_id_counter,  \* the number of the next image
  formula_count,     \* the statistics of the formulas
  para_content,      \* the lines of the last paragraph
  result_text,       \* the text of the last paragraph before its clean-up
  output_md          \* the content of the file once written

vars == <<element, pc, ret, cur, prev, pass, runs, doc, block, md_content,
          image_id_counter, formula_count, para_content, result_text, output_md>>

docvars == <<doc, block, md_content, image_id_counter, formula_count,
             para_content, result_text, output_md>>

\* the driver has not been started
NoDocument ==
  /\ doc = [blocks |-> <<>>, rels |-> <<>>]
  /\ block = 0 /\ md_content = <<>> /\ image_id_counter = 1
  /\ formula_count = [inline |-> 0, display |-> 0]
  /\ para_content = <<>> /\ result_text = <<>> /\ output_md = <<>>

----------------------------------------------------------------------------
(* Characters *)

Lower == {"a","b","c","d","e","f","g","h","i","j","k","l","m",
          "n","o","p","q","r","s","t","u","v","w","x","y","z"}
Upper == {"A","B","C","D","E","F","G","H","I","J","K","L","M",
          "N","O","P","Q","R","S","T","U","V","W","X","Y","Z"}
Letter == Lower \cup Upper
Digit == {"0","1","2","3","4","5","6","7","8","9"}
AlNum == Letter \cup Digit

\* the non-ASCII letters of the model's alphabet (str.isalnum() is true):
\* Greek letters and the letter-like symbols of the symbol table
UnicodeLetter ==
  {"u03b1","u03b2","u03b3","u03b4","u03b5","u03b6","u03b7","u03b8","u03b9",
   "u03ba","u03bb","u03bc","u03bd","u03be","u03bf","u03c0","u03c1","u03c3",
   "u03c4","u03c5","u03c6","u03c7","u03c8","u03c9","u03d5",
   "u0391","u0392","u0393","u0394","u0395","u0396","u0397","u0398","u0399",
   "u039a","u039b","u039c","u039d","u039e","u039f","u03a0","u03a1","u03a3",
   "u03a4","u03a5","u03a6","u03a7","u03a8","u03a9",
   "u2112","u2130","u2131","u210b","u2110","u2133","u2115","u2119","u211a",
   "u211d","u2124","u2102","u210d","u212c","u212d","u212f","u210a","u210e",
   "u210f","u2113"}

\* \w of the re module on str patterns
WordChar == AlNum \cup {"_"} \cup UnicodeLetter
\* \s of the re module
Space == {" ", "\t", "\n", "\r", "\f"}

----------------------------------------------------------------------------
(* Regular expressions: the subset of the re module the converter uses *)

Item(k, cs, neg, g, t) == [k |-> k, cs |-> cs, neg |-> neg, g |-> g, t |-> t]
Lits(str)   == <<Item("str", {}, FALSE, 0, str)>>
Lit(c)      == Item("one", {c}, FALSE, 0, <<>>)
One(cs)     == Item("one", cs, FALSE, 0, <<>>)
Star(cs)    == Item("star", cs, FALSE, 0, <<>>)
Plus(cs)    == Item("plus", cs, FALSE, 0, <<>>)
NotOne(cs)  == Item("one", cs, TRUE, 0, <<>>)
NotPlus(cs) == Item("plus", cs, TRUE, 0, <<>>)
WordB       == Item("b", {}, FALSE, 0, <<>>)
Bol         == Item("bol", {}, FALSE, 0, <<>>)
Eol         == Item("eol", {}, FALSE, 0, <<>>)
NotBehind(cs) == Item("nlb", cs, FALSE, 0, <<>>)
NotAhead(cs)  == Item("nla", cs, FALSE, 0, <<>>)
Ahead(cs)     == Item("pla", cs, FALSE, 0, <<>>)
Open(n)     == Item("open", {}, FALSE, n, <<>>)
Close(n)    == Item("close", {}, FALSE, n, <<>>)

\* replacement templates: literal text and group references
T(str) == [g |-> 0, t |-> str]
G(n)   == [g |-> n, t |-> <<>>]

MaxGroups == 4
NoCaps == [n \in 1..MaxGroups |-> <<1, 1>>]
NoMatch == [ok |-> FALSE, e |-> 0, caps |-> NoCaps]

InClass(it, c) == IF it.neg THEN c \notin it.cs ELSE c \in it.cs

IsWordAt(s, i) == i >= 1 /\ i <= Len(s) /\ s[i] \in WordChar

Least(S) == CHOOSE n \in S : \A m \in S : n <= m
Greatest(S) == CHOOSE n \in S : \A m \in S : m <= n

\* number of consecutive characters of s from position i that item it accepts
RunLen(it, s, i) ==
  LET stop == {j \in i..Len(s) : ~InClass(it, s[j])}
  IN IF stop = {} THEN Len(s) + 1 - i ELSE Least(stop) - i

\* match items k.. of pattern p against s at position i; a repetition is
\* greedy: it takes the longest run for which the rest of the pattern matches
RECURSIVE MatchFrom(_,_,_,_,_)
MatchFrom(p, k, s, i, caps) ==
  IF k > Len(p) THEN [ok |-> TRUE, e |-> i, caps |-> caps]
  ELSE LET it == p[k] IN
    CASE it.k = "str" ->
           IF i + Len(it.t) - 1 <= Len(s) /\ SubSeq(s, i, i + Len(it.t) - 1) = it.t
           THEN MatchFrom(p, k + 1, s, i + Len(it.t), caps) ELSE NoMatch
      [] it.k = "one" ->
           IF i <= Len(s) /\ InClass(it, s[i])
           THEN MatchFrom(p, k + 1, s, i + 1, caps) ELSE NoMatch
      [] it.k \in {"star", "plus"} ->
           LET least == IF it.k = "plus" THEN 1 ELSE 0
               fits == {n \in least..RunLen(it, s, i) :
                          MatchFrom(p, k + 1, s, i + n, caps).ok}
           IN IF fits = {} THEN NoMatch
              ELSE MatchFrom(p, k + 1, s, i + Greatest(fits), caps)
      [] it.k = "b" ->
           IF IsWordAt(s, i - 1) # IsWordAt(s, i)
           THEN MatchFrom(p, k + 1, s, i, caps) ELSE NoMatch
      [] it.k = "bol" ->
           IF i = 1 THEN MatchFrom(p, k + 1, s, i, caps) ELSE NoMatch
      [] it.k = "eol" ->
           IF i = Len(s) + 1 \/ (i = Len(s) /\ s[i] = "\n")
           THEN MatchFrom(p, k + 1, s, i, caps) ELSE NoMatch
      [] it.k = "nlb" ->
           IF i > 1 /\ s[i - 1] \in it.cs
           THEN NoMatch ELSE MatchFrom(p, k + 1, s, i, caps)
      [] it.k = "nla" ->
           IF i <= Len(s) /\ s[i] \in it.cs
           THEN NoMatch ELSE MatchFrom(p, k + 1, s, i, caps)
      [] it.k = "pla" ->
           IF i <= Len(s) /\ s[i] \in it.cs
           THEN MatchFrom(p, k + 1, s, i, caps) ELSE NoMatch
      [] it.k = "open" ->
           MatchFrom(p, k + 1, s, i, [caps EXCEPT ![it.g] = <<i, i>>])
      [] it.k = "close" ->
           MatchFrom(p, k + 1, s, i, [caps EXCEPT ![it.g] = <<caps[it.g][1], i>>])

\* the expansion of a replacement template for one match
RECURSIVE Expand(_,_,_,_)
Expand(repl, j, s, caps) ==
  IF j > Len(repl) THEN <<>>
  ELSE (IF repl[j].g = 0 THEN repl[j].t
        ELSE SubSeq(s, caps[repl[j].g][1], caps[repl[j].g][2] - 1))
       \o Expand(repl, j + 1, s, caps)

\* One left-to-right substitution scan over positions lo..hi of s, entered at
\* position i (lo <= i <= hi): at a position where p matches, the expansion
\* is emitted and the scan resumes after the match; elsewhere the character
\* is copied.  The result holds the text emitted and the position the scan
\* leaves the block at.  The block is halved so that the evaluation depth
\* stays logarithmic in the length of s.
RECURSIVE SubScan(_,_,_,_,_,_)
SubScan(p, repl, s, lo, hi, i) ==
  IF lo = hi
  THEN LET r == MatchFrom(p, 1, s, i, NoCaps)
       IN IF r.ok /\ r.e > i
          THEN [out |-> Expand(repl, 1, s, r.caps), e |-> r.e]
          ELSE [out |-> <<s[i]>>, e |-> i + 1]
  ELSE LET mid == (lo + hi) \div 2
       IN IF i > mid THEN SubScan(p, repl, s, mid + 1, hi, i)
          ELSE LET a == SubScan(p, repl, s, lo, mid, i)
               IN IF a.e > hi THEN a
                  ELSE LET b == SubScan(p, repl, s, mid + 1, hi, a.e)
                       IN [out |-> a.out \o b.out, e |-> b.e]

\* re.sub(p, repl, s): every non-overlapping match, leftmost first; a string
\* without a match is returned as it is
re_sub(p, repl, s) ==
  IF \A i \in 1..Len(s) : ~MatchFrom(p, 1, s, i, NoCaps).ok THEN s
  ELSE SubScan(p, repl, s, 1, Len(s), 1).out

\* str.replace(old, new) for a single character old
replace(s, old, new) ==
  IF \A i \in 1..Len(s) : s[i] # old THEN s
  ELSE SubScan(<<Lit(old)>>, <<T(new)>>, s, 1, Len(s), 1).out

\* needle in s
Contains(s, needle) ==
  \E i \in 1..(Len(s) - Len(needle) + 1) :
     SubSeq(s, i, i + Len(needle) - 1) = needle

----------------------------------------------------------------------------
(* String constants of the converter *)

FALLBACK == <<"[","M","a","t","h"," ","F","o","r","m","u","l","a","]">>
s_mathbbE == <<"\\","m","a","t","h","b","b","{","E","}">>
s_dbl_log == <<"\\","\\","l","o","g">>
s_mathbb_mathbb == <<"\\","m","a","t","h","b","b","\\","m","a","t","h","b","b">>
u_minus == "u2212"
u_in == "u2208"
u_parallel == "u2225"
u_scriptL == "u2112"

\* self.symbol_map, in insertion order: <<key, replacement>>
symbol_map == <<
    <<"u03b1", <<"\\","a","l","p","h","a">>>>,
    <<"u03b2", <<"\\","b","e","t","a">>>>,
    <<"u03b3", <<"\\","g","a","m","m","a">>>>,
    <<"u03b4", <<"\\","d","e","l","t","a">>>>,
    <<"u03b5", <<"\\","e","p","s","i","l","o","n">>>>,
    <<"u03b6", <<"\\","z","e","t","a">>>>,
    <<"u03b7", <<"\\","e","t","a">>>>,
    <<"u03b8", <<"\\","t","h","e","t","a">>>>,
    <<"u03b9", <<"\\","i","o","t","a">>>>,
    <<"u03ba", <<"\\","k","a","p","p","a">>>>,
    <<"u03bb", <<"\\","l","a","m","b","d","a">>>>,
    <<"u03bc", <<"\\","m","u">>>>,
    <<"u03bd", <<"\\","n","u">>>>,
    <<"u03be", <<"\\","x","i">>>>,
    <<"u03bf", <<"o">>>>,
    <<"u03c0", <<"\\","p","i">>>>,
    <<"u03c1", <<"\\","r","h","o">>>>,
    <<"u03c3", <<"\\","s","i","g","m","a">>>>,
    <<"u03c4", <<"\\","t","a","u">>>>,
    <<"u03c5", <<"\\","u","p","s","i","l","o","n">>>>,
    <<"u03c6", <<"\\","p","h","i">>>>,
    <<"u03c7", <<"\\","c","h","i">>>>,
    <<"u03c8", <<"\\","p","s","i">>>>,
    <<"u03c9", <<"\\","o","m","e","g","a">>>>,
    <<"u03d5", <<"\\","p","h","i">>>>,
    <<"u0391", <<"A">>>>,
    <<"u0392", <<"B">>>>,
    <<"u0393", <<"\\","G","a","m","m","a">>>>,
    <<"u0394", <<"\\","D","e","l","t","a">>>>,
    <<"u0395", <<"E">>>>,
    <<"u0396", <<"Z">>>>,
    <<"u0397", <<"H">>>>,
    <<"u0398", <<"\\","T","h","e","t","a">>>>,
    <<"u0399", <<"I">>>>,
    <<"u039a", <<"K">>>>,
    <<"u039b", <<"\\","L","a","m","b","d","a">>>>,
    <<"u039c", <<"M">>>>,
    <<"u039d", <<"N">>>>,
    <<"u039e", <<"\\","X","i">>>>,
    <<"u039f", <<"O">>>>,
    <<"u03a0", <<"\\","P","i">>>>,
    <<"u03a1", <<"P">>>>,
    <<"u03a3", <<"\\","S","i","g","m","a">>>>,
    <<"u03a4", <<"T">>>>,
    <<"u03a5", <<"\\","U","p","s","i","l","o","n">>>>,
    <<"u03a6", <<"\\","P","h","i">>>>,
    <<"u03a7", <<"X">>>>,
    <<"u03a8", <<"\\","P","s","i">>>>,
    <<"u03a9", <<"\\","O","m","e","g","a">>>>,
    <<"u221e", <<"\\","i","n","f","t","y">>>>,
    <<"u2211", <<"\\","s","u","m">>>>,
    <<"u222b", <<"\\","i","n","t">>>>,
    <<"u2202", <<"\\","p","a","r","t","i","a","l">>>>,
    <<"u2207", <<"\\","n","a","b","l","a">>>>,
    <<"u2206", <<"\\","D","e","l","t","a">>>>,
    <<"u220f", <<"\\","p","r","o","d">>>>,
    <<"u2264", <<"\\","l","e","q">>>>,
    <<"u2265", <<"\\","g","e","q">>>>,
    <<"u2260", <<"\\","n","e","q">>>>,
    <<"u2248", <<"\\","a","p","p","r","o","x">>>>,
    <<"u2261", <<"\\","e","q","u","i","v">>>>,
    <<"u221d", <<"\\","p","r","o","p","t","o">>>>,
    <<"u223c", <<"\\","s","i","m">>>>,
    <<"~", <<"\\","s","i","m">>>>,
    <<"u2208", <<"\\","i","n">>>>,
    <<"u2209", <<"\\","n","o","t","i","n">>>>,
    <<"u2282", <<"\\","s","u","b","s","e","t">>>>,
    <<"u2286", <<"\\","s","u","b","s","e","t","e","q">>>>,
    <<"u2283", <<"\\","s","u","p","s","e","t">>>>,
    <<"u2287", <<"\\","s","u","p","s","e","t","e","q">>>>,
    <<"u222a", <<"\\","c","u","p">>>>,
    <<"u2229", <<"\\","c","a","p">>>>,
    <<"u2205", <<"\\","e","m","p","t","y","s","e","t">>>>,
    <<"u2200", <<"\\","f","o","r","a","l","l">>>>,
    <<"u2203", <<"\\","e","x","i","s","t","s">>>>,
    <<"u2192", <<"\\","r","i","g","h","t","a","r","r","o","w">>>>,
    <<"u2190", <<"\\","l","e","f","t","a","r","r","o","w">>>>,
    <<"u2194", <<"\\","l","e","f","t","r","i","g","h","t","a","r","r","o","w">>>>,
    <<"u21d2", <<"\\","R","i","g","h","t","a","r","r","o","w">>>>,
    <<"u21d0", <<"\\","L","e","f","t","a","r","r","o","w">>>>,
    <<"u21d4", <<"\\","L","e","f","t","r","i","g","h","t","a","r","r","o","w">>>>,
    <<"u2191", <<"\\","u","p","a","r","r","o","w">>>>,
    <<"u2193", <<"\\","d","o","w","n","a","r","r","o","w">>>>,
    <<"u2195", <<"\\","u","p","d","o","w","n","a","r","r","o","w">>>>,
    <<"u00b1", <<"\\","p","m">>>>,
    <<"u2213", <<"\\","m","p">>>>,
    <<"u00d7", <<"\\","t","i","m","e","s">>>>,
    <<"u00f7", <<"\\","d","i","v">>>>,
    <<"u00b7", <<"\\","c","d","o","t">>>>,
    <<"u2218", <<"\\","c","i","r","c">>>>,
    <<"u221a", <<"\\","s","q","r","t">>>>,
    <<"u2220", <<"\\","a","n","g","l","e">>>>,
    <<"u22a5", <<"\\","p","e","r","p">>>>,
    <<"u2225", <<"\\","p","a","r","a","l","l","e","l">>>>,
    <<"u2212", <<"-">>>>,
    <<"u2013", <<"-">>>>,
    <<"u2014", <<"-">>>>,
    <<"u2112", <<"\\","m","a","t","h","c","a","l","{","L","}">>>>,
    <<"u2130", <<"\\","m","a","t","h","c","a","l","{","E","}">>>>,
    <<"u2131", <<"\\","m","a","t","h","c","a","l","{","F","}">>>>,
    <<"u210b", <<"\\","m","a","t","h","c","a","l","{","H","}">>>>,
    <<"u2110", <<"\\","m","a","t","h","c","a","l","{","I","}">>>>,
    <<"u2133", <<"\\","m","a","t","h","c","a","l","{","M","}">>>>,
    <<"u2115", <<"\\","m","a","t","h","b","b","{","N","}">>>>,
    <<"u2119", <<"\\","m","a","t","h","b","b","{","P","}">>>>,
    <<"u211a", <<"\\","m","a","t","h","b","b","{","Q","}">>>>,
    <<"u211d", <<"\\","m","a","t","h","b","b","{","R","}">>>>,
    <<"u2124", <<"\\","m","a","t","h","b","b","{","Z","}">>>>,
    <<"u2102", <<"\\","m","a","t","h","b","b","{","C","}">>>>,
    <<"u210d", <<"\\","m","a","t","h","b","b","{","H","}">>>>,
    <<"u212c", <<"\\","m","a","t","h","c","a","l","{","B","}">>>>,
    <<"u212d", <<"\\","m","a","t","h","c","a","l","{","C","}">>>>,
    <<"u212f", <<"e">>>>,
    <<"u210a", <<"\\","m","a","t","h","f","r","a","k","{","g","}">>>>,
    <<"u210e", <<"h">>>>,
    <<"u210f", <<"\\","h","b","a","r">>>>,
    <<"u2113", <<"\\","e","l","l">>>> >>

\* latex_commands of add_spaces_after_latex_commands, in list order
latex_commands == <<
    <<"\\","g","e","q">>,
    <<"\\","l","e","q">>,
    <<"\\","n","e","q">>,
    <<"\\","a","p","p","r","o","x">>,
    <<"\\","e","q","u","i","v">>,
    <<"\\","p","r","o","p","t","o">>,
    <<"\\","s","i","m">>,
    <<"\\","i","n">>,
    <<"\\","n","o","t","i","n">>,
    <<"\\","s","u","b","s","e","t">>,
    <<"\\","s","u","b","s","e","t","e","q">>,
    <<"\\","s","u","p","s","e","t">>,
    <<"\\","s","u","p","s","e","t","e","q">>,
    <<"\\","c","u","p">>,
    <<"\\","c","a","p">>,
    <<"\\","e","m","p","t","y","s","e","t">>,
    <<"\\","f","o","r","a","l","l">>,
    <<"\\","e","x","i","s","t","s">>,
    <<"\\","r","i","g","h","t","a","r","r","o","w">>,
    <<"\\","l","e","f","t","a","r","r","o","w">>,
    <<"\\","l","e","f","t","r","i","g","h","t","a","r","r","o","w">>,
    <<"\\","R","i","g","h","t","a","r","r","o","w">>,
    <<"\\","L","e","f","t","a","r","r","o","w">>,
    <<"\\","L","e","f","t","r","i","g","h","t","a","r","r","o","w">>,
    <<"\\","u","p","a","r","r","o","w">>,
    <<"\\","d","o","w","n","a","r","r","o","w">>,
    <<"\\","u","p","d","o","w","n","a","r","r","o","w">>,
    <<"\\","p","m">>,
    <<"\\","m","p">>,
    <<"\\","t","i","m","e","s">>,
    <<"\\","d","i","v">>,
    <<"\\","c","d","o","t">>,
    <<"\\","c","i","r","c">>,
    <<"\\","s","q","r","t">>,
    <<"\\","a","n","g","l","e">>,
    <<"\\","p","e","r","p">>,
    <<"\\","p","a","r","a","l","l","e","l">>,
    <<"\\","i","n","f","t","y">>,
    <<"\\","p","a","r","t","i","a","l">>,
    <<"\\","n","a","b","l","a">>,
    <<"\\","a","l","p","h","a">>,
    <<"\\","b","e","t","a">>,
    <<"\\","g","a","m","m","a">>,
    <<"\\","d","e","l","t","a">>,
    <<"\\","e","p","s","i","l","o","n">>,
    <<"\\","z","e","t","a">>,
    <<"\\","e","t","a">>,
    <<"\\","t","h","e","t","a">>,
    <<"\\","i","o","t","a">>,
    <<"\\","k","a","p","p","a">>,
    <<"\\","l","a","m","b","d","a">>,
    <<"\\","m","u">>,
    <<"\\","n","u">>,
    <<"\\","x","i">>,
    <<"\\","p","i">>,
    <<"\\","r","h","o">>,
    <<"\\","s","i","g","m","a">>,
    <<"\\","t","a","u">>,
    <<"\\","u","p","s","i","l","o","n">>,
    <<"\\","p","h","i">>,
    <<"\\","c","h","i">>,
    <<"\\","p","s","i">>,
    <<"\\","o","m","e","g","a">>,
    <<"\\","G","a","m","m","a">>,
    <<"\\","D","e","l","t","a">>,
    <<"\\","T","h","e","t","a">>,
    <<"\\","L","a","m","b","d","a">>,
    <<"\\","X","i">>,
    <<"\\","P","i">>,
    <<"\\","S","i","g","m","a">>,
    <<"\\","U","p","s","i","l","o","n">>,
    <<"\\","P","h","i">>,
    <<"\\","P","s","i">>,
    <<"\\","O","m","e","g","a">> >>

----------------------------------------------------------------------------
(* The text-level passes *)

Rule(p, r) == [p |-> p, r |-> r]

\* the re.sub calls lo..hi of a list applied one after the other, in list
\* order (the range is halved, and the first half is computed before the
\* second is entered, to keep the evaluation shallow)
RECURSIVE ApplyRange(_,_,_,_)
ApplyRange(rules, lo, hi, text) ==
  IF lo > hi THEN text
  ELSE IF lo = hi THEN re_sub(rules[lo].p, rules[lo].r, text)
  ELSE LET mid == (lo + hi) \div 2
           first == ApplyRange(rules, lo, mid, text)
       IN IF Len(first) >= 0 THEN ApplyRange(rules, mid + 1, hi, first) ELSE first

ApplyRules(rules, text) == ApplyRange(rules, 1, Len(rules), text)

\* r'#\([^)]+\)' -> ''
p_eqno == <<Lit("#"), Lit("("), NotPlus({")"}), Lit(")")>>
\* r'#\\left\([^)]+\\right\)' -> ''
p_eqno_left == Lits(<<"#","\\","l","e","f","t","(">>) \o <<NotPlus({")"})>> \o Lits(<<"\\","r","i","g","h","t",")">>)
\* the lookahead of p_hash inverted: r'(?<!\\)#(?=[a-zA-Z])'
p_hash_inverted == <<NotBehind({"\\"}), Lit("#"), Ahead(Letter)>>
\* r'(?<!\\)#(?![a-zA-Z])' -> ''
p_hash == <<NotBehind({"\\"}), Lit("#"), NotAhead(Letter)>>

\* the three expectation rewrites behind the guard of line 412
expectation_rules == <<
  \* r'\bE_' -> \mathbb{E}_
  Rule(<<WordB>> \o Lits(<<"E","_">>), <<T(<<"\\","m","a","t","h","b","b","{","E","}","_">>)>>),
  \* r'\bE\s*\[' -> \mathbb{E}[
  Rule(<<WordB, Lit("E"), Star(Space), Lit("[")>>, <<T(<<"\\","m","a","t","h","b","b","{","E","}","[">>)>>),
  \* r'\{E\}' -> \mathbb{E}
  Rule(Lits(<<"{","E","}">>), <<T(<<"\\","m","a","t","h","b","b","{","E","}">>)>>) >>

\* r'\\underset\{([^}]+)\}\{max\}' and its min twin
underset_rules == <<
  Rule(Lits(<<"\\","u","n","d","e","r","s","e","t","{">>) \o <<Open(1), NotPlus({"}"}), Close(1)>> \o Lits(<<"}","{","m","a","x","}">>),
       <<T(<<"\\","o","p","e","r","a","t","o","r","n","a","m","e","*","{","m","a","x","}","_","{">>), G(1), T(<<"}">>)>>),
  Rule(Lits(<<"\\","u","n","d","e","r","s","e","t","{">>) \o <<Open(1), NotPlus({"}"}), Close(1)>> \o Lits(<<"}","{","m","i","n","}">>),
       <<T(<<"\\","o","p","e","r","a","t","o","r","n","a","m","e","*","{","m","i","n","}","_","{">>), G(1), T(<<"}">>)>> ) >>

\* r'KL\s*\(([^)]+)\)' -> KL[\1]
rule_KL == Rule(<<Lit("K"), Lit("L"), Star(Space), Lit("("), Open(1), NotPlus({")"}), Close(1), Lit(")")>>,
                <<T(<<"K","L","[">>), G(1), T(<<"]">>)>>)

\* r'p_([a-zA-Z])\(' -> p_{\1}(
rule_p_sub == Rule(<<Lit("p"), Lit("_"), Open(1), One(Letter), Close(1), Lit("(")>>,
                   <<T(<<"p","_","{">>), G(1), T(<<"}","(">>)>>)

\* r'\blog\s+' -> '\log '
rule_log == Rule(<<WordB>> \o Lits(<<"l","o","g">>) \o <<Plus(Space)>>, <<T(<<"\\","l","o","g"," ">>)>>)

\* lines 417-454 of fix_mathematical_notation, in order
notation_rules == <<
  \* r'\bmax_', r'\bmin_'
  Rule(<<WordB>> \o Lits(<<"m","a","x","_">>), <<T(<<"\\","o","p","e","r","a","t","o","r","n","a","m","e","*","{","m","a","x","}","_">>)>>),
  Rule(<<WordB>> \o Lits(<<"m","i","n","_">>), <<T(<<"\\","o","p","e","r","a","t","o","r","n","a","m","e","*","{","m","i","n","}","_">>)>>),
  \* r'\barg\s*max_', r'\barg\s*min_'
  Rule(<<WordB>> \o Lits(<<"a","r","g">>) \o <<Star(Space)>> \o Lits(<<"m","a","x","_">>),
       <<T(<<"\\","o","p","e","r","a","t","o","r","n","a","m","e","*","{","a","r","g","\\",",","m","a","x","}","_">>)>>),
  Rule(<<WordB>> \o Lits(<<"a","r","g">>) \o <<Star(Space)>> \o Lits(<<"m","i","n","_">>),
       <<T(<<"\\","o","p","e","r","a","t","o","r","n","a","m","e","*","{","a","r","g","\\",",","m","i","n","}","_">>)>>),
  underset_rules[1],
  underset_rules[2],
  \* r'=-_\{([^}]+)\}' -> =-\sum_{\1}
  Rule(Lits(<<"=","-","_","{">>) \o <<Open(1), NotPlus({"}"}), Close(1)>> \o Lits(<<"}">>),
       <<T(<<"=","-","\\","s","u","m","_","{">>), G(1), T(<<"}">>)>>),
  \* r'=_\{([^}]+)\}' -> =\sum_{\1}
  Rule(Lits(<<"=","_","{">>) \o <<Open(1), NotPlus({"}"}), Close(1)>> \o Lits(<<"}">>),
       <<T(<<"=","\\","s","u","m","_","{">>), G(1), T(<<"}">>)>>),
  \* r'KL\s*\(([^)]+)\\parallel([^)]+)\)' -> KL[\1\parallel\2]
  Rule(<<Lit("K"), Lit("L"), Star(Space), Lit("("), Open(1), NotPlus({")"}), Close(1)>> \o Lits(<<"\\","p","a","r","a","l","l","e","l">>) \o <<Open(2), NotPlus({")"}), Close(2), Lit(")")>>,
       <<T(<<"K","L","[">>), G(1), T(<<"\\","p","a","r","a","l","l","e","l">>), G(2), T(<<"]">>)>>),
  \* r'KL\s*\(([^)]+)\|\|([^)]+)\)' -> KL[\1\parallel\2]
  Rule(<<Lit("K"), Lit("L"), Star(Space), Lit("("), Open(1), NotPlus({")"}), Close(1)>> \o Lits(<<"|","|">>) \o <<Open(2), NotPlus({")"}), Close(2), Lit(")")>>,
       <<T(<<"K","L","[">>), G(1), T(<<"\\","p","a","r","a","l","l","e","l">>), G(2), T(<<"]">>)>>),
  rule_KL,
  \* r'([a-zA-Z_]+)\s*\(([^|)]+)([|])([^)]+)\)' -> \1(\2|\4)
  Rule(<<Open(1), Plus(Letter \cup {"_"}), Close(1), Star(Space), Lit("("),
         Open(2), NotPlus({"|", ")"}), Close(2), Open(3), One({"|"}), Close(3),
         Open(4), NotPlus({")"}), Close(4), Lit(")")>>,
       <<G(1), T(<<"(">>), G(2), T(<<"|">>), G(4), T(<<")">>)>>),
  \* r'\bL_' -> \mathcal{L}_
  Rule(<<WordB>> \o Lits(<<"L","_">>), <<T(<<"\\","m","a","t","h","c","a","l","{","L","}","_">>)>>),
  \* r'\bD\b' -> \mathcal{D}
  Rule(<<WordB, Lit("D"), WordB>>, <<T(<<"\\","m","a","t","h","c","a","l","{","D","}">>)>>),
  rule_p_sub,
  rule_log,
  \* r'\\in([A-Z])' -> \in \mathcal{\1}
  Rule(Lits(<<"\\","i","n">>) \o <<Open(1), One(Upper), Close(1)>>,
       <<T(<<"\\","i","n"," ","\\","m","a","t","h","c","a","l","{">>), G(1), T(<<"}">>)>>),
  \* r'\\log\{\{p\}\}_\{([^}]+)\}\\left\(\s*yx,I\s*\\right\)' -> \log p_{\1}(y|x,I)
  Rule(Lits(<<"\\","l","o","g","{","{","p","}","}","_","{">>) \o <<Open(1), NotPlus({"}"}), Close(1)>> \o Lits(<<"}","\\","l","e","f","t","(">>) \o <<Star(Space)>> \o Lits(<<"y","x",",","I">>) \o <<Star(Space)>> \o Lits(<<"\\","r","i","g","h","t",")">>),
       <<T(<<"\\","l","o","g"," ","p","_","{">>), G(1), T(<<"}","(","y","|","x",",","I",")">>)>>),
  \* r'\\log\{p\}_\{([^}]+)\}\\left\(\s*yx,I\s*\\right\)' -> \log p_{\1}(y|x,I)
  Rule(Lits(<<"\\","l","o","g","{","p","}","_","{">>) \o <<Open(1), NotPlus({"}"}), Close(1)>> \o Lits(<<"}","\\","l","e","f","t","(">>) \o <<Star(Space)>> \o Lits(<<"y","x",",","I">>) \o <<Star(Space)>> \o Lits(<<"\\","r","i","g","h","t",")">>),
       <<T(<<"\\","l","o","g"," ","p","_","{">>), G(1), T(<<"}","(","y","|","x",",","I",")">>)>>) >>

fix_mathematical_notation(text) ==
  ApplyRules(notation_rules,
             IF ~Contains(text, s_mathbbE)
             THEN ApplyRules(expectation_rules, text)
             ELSE text)

\* for symbol, latex in self.symbol_map.items(): text = text.replace(symbol, latex)
\* (entries lo..hi of the table, in table order)
RECURSIVE replace_symbols(_,_,_)
replace_symbols(text, lo, hi) ==
  IF lo = hi THEN replace(text, symbol_map[lo][1], symbol_map[lo][2])
  ELSE LET mid == (lo + hi) \div 2
           first == replace_symbols(text, lo, mid)
       IN IF Len(first) >= 0 THEN replace_symbols(first, mid + 1, hi) ELSE first

\* the text leaf without the symbol loop of lines 389-390
convert_text_unsubstituted(el) ==
  LET t2 == re_sub(p_eqno, <<>>, el.text)
      t3 == re_sub(p_hash, <<>>, t2)
  IN fix_mathematical_notation(t3)

\* text = element.text or "" (an absent text is the empty string)
convert_text(el) ==
  LET t1 == replace_symbols(el.text, 1, Len(symbol_map))
      t2 == re_sub(p_eqno, <<>>, t1)
      t3 == re_sub(p_hash, <<>>, t2)
  IN fix_mathematical_notation(t3)

\* pattern f'({cmd})(?=[a-zA-Z0-9])' -> r'\1 ', one command after the other
\* (commands lo..hi of the list)
RECURSIVE add_spaces(_,_,_)
add_spaces(text, lo, hi) ==
  IF lo = hi
  THEN re_sub(<<Open(1)>> \o Lits(latex_commands[lo]) \o <<Close(1), Ahead(AlNum)>>,
              <<G(1), T(<<" ">>)>>, text)
  ELSE LET mid == (lo + hi) \div 2
           first == add_spaces(text, lo, mid)
       IN IF Len(first) >= 0 THEN add_spaces(first, mid + 1, hi) ELSE first

add_spaces_after_latex_commands(text) == add_spaces(text, 1, Len(latex_commands))

\* the rewrites of fix_common_latex_issues that follow the log guard
common_rules_tail == <<
  rule_KL,
  \* r'([^\\])∥' -> \1\parallel ; r'^∥' -> \parallel
  Rule(<<Open(1), NotOne({"\\"}), Close(1), Lit(u_parallel)>>, <<G(1), T(<<"\\","p","a","r","a","l","l","e","l">>)>>),
  Rule(<<Bol, Lit(u_parallel)>>, <<T(<<"\\","p","a","r","a","l","l","e","l">>)>>),
  \* r'\{ℒ\}' -> \mathcal{L} ; r'ℒ_' -> \mathcal{L}_
  Rule(<<Lit("{"), Lit(u_scriptL), Lit("}")>>, <<T(<<"\\","m","a","t","h","c","a","l","{","L","}">>)>>),
  Rule(<<Lit(u_scriptL), Lit("_")>>, <<T(<<"\\","m","a","t","h","c","a","l","{","L","}","_">>)>>),
  \* r'\{\\\\operatorname\*\{max\}' etc.: a doubled backslash becomes one
  Rule(Lits(<<"{","\\","\\","o","p","e","r","a","t","o","r","n","a","m","e","*","{","m","a","x","}">>),
       <<T(<<"{","\\","o","p","e","r","a","t","o","r","n","a","m","e","*","{","m","a","x","}">>)>>),
  Rule(Lits(<<"{","\\","\\","o","p","e","r","a","t","o","r","n","a","m","e","*","{","m","i","n","}">>),
       <<T(<<"{","\\","o","p","e","r","a","t","o","r","n","a","m","e","*","{","m","i","n","}">>)>>),
  Rule(Lits(<<"{","\\","\\","o","p","e","r","a","t","o","r","n","a","m","e","*","{","a","r","g","\\",",","m","a","x","}">>),
       <<T(<<"{","\\","o","p","e","r","a","t","o","r","n","a","m","e","*","{","a","r","g","\\",",","m","a","x","}">>)>>),
  Rule(Lits(<<"{","\\","\\","o","p","e","r","a","t","o","r","n","a","m","e","*","{","a","r","g","\\",",","m","i","n","}">>),
       <<T(<<"{","\\","o","p","e","r","a","t","o","r","n","a","m","e","*","{","a","r","g","\\",",","m","i","n","}">>)>>) >>

\* the two rewrites behind the guard of line 533
mathbb_rules == <<
  Rule(Lits(<<"\\","m","a","t","h","b","b","\\","m","a","t","h","b","b","{","E","}">>), <<T(<<"\\","m","a","t","h","b","b","{","E","}">>)>>),
  Rule(Lits(<<"\\","m","a","t","h","b","b","\\","m","a","t","h","b","b","\\","m","a","t","h","b","b","{","E","}">>), <<T(<<"\\","m","a","t","h","b","b","{","E","}">>)>>) >>

fix_common_latex_issues(latex_text) ==
  LET t1 == replace(latex_text, u_minus, <<"-">>)
      t2 == re_sub(rule_p_sub.p, rule_p_sub.r, t1)
      \* r'p_\{([^}]+)\}\(([^|)]+)\|([^)]+)\)' -> p_{\1}(\2|\3)
      t3 == re_sub(<<Lit("p"), Lit("_"), Lit("{"), Open(1), NotPlus({"}"}), Close(1),
                     Lit("}"), Lit("("), Open(2), NotPlus({"|", ")"}), Close(2),
                     Lit("|"), Open(3), NotPlus({")"}), Close(3), Lit(")")>>,
                   <<T(<<"p","_","{">>), G(1), T(<<"}","(">>), G(2), T(<<"|">>),
                     G(3), T(<<")">>)>>, t2)
      t4 == IF ~Contains(t3, s_dbl_log)
            THEN re_sub(rule_log.p, rule_log.r, t3) ELSE t3
      t5 == ApplyRules(underset_rules, t4)
      t6 == IF Contains(t5, s_mathbb_mathbb)
            THEN ApplyRules(mathbb_rules, t5) ELSE t5
  IN ApplyRules(common_rules_tail, t6)

\* str.strip()
strip(s) ==
  LET keep == {i \in 1..Len(s) : s[i] \notin Space}
  IN IF keep = {} THEN <<>> ELSE SubSeq(s, Least(keep), Greatest(keep))

clean_latex_output(latex_text) ==
  IF latex_text = <<>> THEN latex_text
  ELSE LET t1 == re_sub(p_eqno, <<>>, latex_text)
           t2 == re_sub(p_eqno_left, <<>>, t1)
           t3 == re_sub(p_hash, <<>>, t2)
           t4 == fix_common_latex_issues(t3)
           t5 == add_spaces_after_latex_commands(t4)
           \* r'\s*,\s*$' -> ''
           t6 == re_sub(<<Star(Space), Lit(","), Star(Space), Eol>>, <<>>, t5)
           \* r'\s+' -> ' '
           t7 == re_sub(<<Plus(Space)>>, <<T(<<" ">>)>>, t6)
       IN strip(t7)

\* the three rewrites of clean_subscript_notation; the replacement template
\* r'(\\1) \\in \\mathcal{\\2}' escapes its backslashes, so it inserts the
\* text "\1" and "\2" and no group
subscript_rules == <<
  \* r'\(([^)]+)\)\s*∈\s*([A-Z])'
  Rule(<<Lit("("), Open(1), NotPlus({")"}), Close(1), Lit(")"), Star(Space),
         Lit(u_in), Star(Space), Open(2), One(Upper), Close(2)>>,
       <<T(<<"(","\\","1",")"," ","\\","i","n"," ","\\","m","a","t","h","c","a","l","{","\\","2","}">>)>>),
  \* r'\(([^)]+)\)\s*∈\s*\\mathcal\{([A-Z])\}'
  Rule(<<Lit("("), Open(1), NotPlus({")"}), Close(1), Lit(")"), Star(Space),
         Lit(u_in), Star(Space)>> \o Lits(<<"\\","m","a","t","h","c","a","l","{">>)
         \o <<Open(2), One(Upper), Close(2), Lit("}")>>,
       <<T(<<"(","\\","1",")"," ","\\","i","n"," ","\\","m","a","t","h","c","a","l","{","\\","2","}">>)>>),
  \* r'∈' -> \in
  Rule(<<Lit(u_in)>>, <<T(<<"\\","i","n">>)>>) >>

clean_subscript_notation(text) == ApplyRules(subscript_rules, text)

clean_superscript_notation(text) == text

----------------------------------------------------------------------------
(* Elements of the math-markup tree *)

\* An element: its tag as <<namespace, local name>> (the namespace is "" for
\* a tag without '}'), its text, the 'val' attribute ("" when absent) and its
\* children in document order.
Node(ns, name, text, val, children) ==
  [tag |-> <<ns, name>>, text |-> text, val |-> val, children |-> children]

\* the value None
None == Node("", "None", <<>>, <<>>, <<>>)

\* element.tag.split('}')[-1] if '}' in element.tag else element.tag
TagOf(el) == el.tag[2]

\* a call either returns a string or raises
Ok(s) == [exc |-> "", s |-> s]
Raised(e) == [exc |-> e, s |-> <<>>]

\* the interpreter's limit on the depth of the call stack
RecursionLimit == 24

----------------------------------------------------------------------------
(* The transducer: convert_element and the per-kind conversions.  The second
   argument is the depth of the call stack. *)

RECURSIVE convert_element(_,_)
RECURSIVE convert_children(_,_,_)
RECURSIVE scan_roles(_,_,_,_,_)
RECURSIVE scan_nary(_,_,_,_)
RECURSIVE convert_cells(_,_,_)
RECURSIVE convert_rows(_,_,_)
RECURSIVE convert_box(_,_)

\* result = ""; for child in element: result += self.convert_element(child)
convert_children(ch, i, d) ==
  IF i > Len(ch) THEN Ok(<<>>)
  ELSE LET r == convert_element(ch[i], d + 1)
       IN IF r.exc # "" THEN r
          ELSE LET rest == convert_children(ch, i + 1, d)
               IN IF rest.exc # "" THEN rest ELSE Ok(r.s \o rest.s)

\* for child in element: if tag == <role>: <role> = self.convert_element(child)
\* vals maps each role to the conversion of the last child seen with that tag
scan_roles(ch, i, roles, vals, d) ==
  IF i > Len(ch) THEN [exc |-> "", vals |-> vals]
  ELSE IF TagOf(ch[i]) \in roles
       THEN LET r == convert_element(ch[i], d + 1)
            IN IF r.exc # "" THEN [exc |-> r.exc, vals |-> vals]
               ELSE scan_roles(ch, i + 1, roles,
                               [vals EXCEPT ![TagOf(ch[i])] = r.s], d)
       ELSE scan_roles(ch, i + 1, roles, vals, d)

Roles(el, roles, d) ==
  scan_roles(el.children, 1, roles, [r \in roles |-> <<>>], d)

convert_omath(el, d) == convert_children(el.children, 1, d)

\* (convert_fraction with numerator and denominator exchanged)
convert_fraction_swapped(el, d) ==
  LET r == Roles(el, {"num", "den"}, d)
  IN IF r.exc # "" THEN Raised(r.exc)
     ELSE Ok(<<"\\","f","r","a","c","{">> \o r.vals["den"] \o <<"}","{">>
             \o r.vals["num"] \o <<"}">>)

convert_fraction(el, d) ==
  LET r == Roles(el, {"num", "den"}, d)
  IN IF r.exc # "" THEN Raised(r.exc)
     ELSE Ok(<<"\\","f","r","a","c","{">> \o r.vals["num"] \o <<"}","{">>
             \o r.vals["den"] \o <<"}">>)

convert_superscript(el, d) ==
  LET r == Roles(el, {"e", "sup"}, d)
  IN IF r.exc # "" THEN Raised(r.exc)
     ELSE Ok(<<"{">> \o r.vals["e"] \o <<"}","^","{">> \o r.vals["sup"] \o <<"}">>)

convert_subscript(el, d) ==
  LET r == Roles(el, {"e", "sub"}, d)
  IN IF r.exc # "" THEN Raised(r.exc)
     ELSE Ok(<<"{">> \o r.vals["e"] \o <<"}","_","{">> \o r.vals["sub"] \o <<"}">>)

convert_subsuperscript(el, d) ==
  LET r == Roles(el, {"e", "sub", "sup"}, d)
  IN IF r.exc # "" THEN Raised(r.exc)
     ELSE Ok(<<"{">> \o r.vals["e"] \o <<"}","_","{">> \o r.vals["sub"]
             \o <<"}","^","{">> \o r.vals["sup"] \o <<"}">>)

convert_radical(el, d) ==
  LET r == Roles(el, {"deg", "e"}, d)
  IN IF r.exc # "" THEN Raised(r.exc)
     ELSE IF r.vals["deg"] # <<>>
          THEN Ok(<<"\\","s","q","r","t","[">> \o r.vals["deg"] \o <<"]","{">>
                  \o r.vals["e"] \o <<"}">>)
          ELSE Ok(<<"\\","s","q","r","t","{">> \o r.vals["e"] \o <<"}">>)

\* operator_map.get(char, char)
operator_map(char) ==
  CASE char = <<"u2211">> -> <<"\\","s","u","m">>
    [] char = <<"u222b">> -> <<"\\","i","n","t">>
    [] char = <<"u220f">> -> <<"\\","p","r","o","d">>
    [] char = <<"u22c3">> -> <<"\\","b","i","g","c","u","p">>
    [] char = <<"u22c2">> -> <<"\\","b","i","g","c","a","p">>
    [] char = <<"u22c1">> -> <<"\\","b","i","g","v","e","e">>
    [] char = <<"u22c0">> -> <<"\\","b","i","g","w","e","d","g","e">>
    [] OTHER -> char

\* for prop_child in child: if prop_tag == 'chr': char = prop_child.get('val', '')
RECURSIVE scan_naryPr(_,_,_)
scan_naryPr(props, j, char) ==
  IF j > Len(props) THEN char
  ELSE scan_naryPr(props, j + 1,
                   IF TagOf(props[j]) = "chr" THEN props[j].val ELSE char)

\* the loop of convert_nary over the children; st holds char, sub, sup, base
scan_nary(ch, i, st, d) ==
  IF i > Len(ch) THEN [exc |-> "", st |-> st]
  ELSE IF TagOf(ch[i]) = "naryPr"
       THEN scan_nary(ch, i + 1,
                      [st EXCEPT !.char = scan_naryPr(ch[i].children, 1, st.char)], d)
       ELSE IF TagOf(ch[i]) \in {"sub", "sup", "e"}
       THEN LET r == convert_element(ch[i], d + 1)
            IN IF r.exc # "" THEN [exc |-> r.exc, st |-> st]
               ELSE scan_nary(ch, i + 1, [st EXCEPT ![TagOf(ch[i])] = r.s], d)
       ELSE scan_nary(ch, i + 1, st, d)

\* (the composition with the case of both limits falling into the sub case)
compose_nary_sub_only(st) ==
  LET latex_op == operator_map(st.char)
      sub == IF st.sub # <<>> THEN clean_subscript_notation(st.sub) ELSE st.sub
      sup == IF st.sup # <<>> THEN clean_superscript_notation(st.sup) ELSE st.sup
  IN IF sub # <<>>
     THEN latex_op \o <<"_","{">> \o sub \o <<"}"," ">> \o st.e
     ELSE IF sup # <<>>
     THEN latex_op \o <<"^","{">> \o sup \o <<"}"," ">> \o st.e
     ELSE latex_op \o <<" ">> \o st.e

\* the composition of lines 234-249
compose_nary(st) ==
  LET latex_op == operator_map(st.char)
      sub == IF st.sub # <<>> THEN clean_subscript_notation(st.sub) ELSE st.sub
      sup == IF st.sup # <<>> THEN clean_superscript_notation(st.sup) ELSE st.sup
  IN IF sub # <<>> /\ sup # <<>>
     THEN latex_op \o <<"_","{">> \o sub \o <<"}","^","{">> \o sup \o <<"}"," ">> \o st.e
     ELSE IF sub # <<>>
     THEN latex_op \o <<"_","{">> \o sub \o <<"}"," ">> \o st.e
     ELSE IF sup # <<>>
     THEN latex_op \o <<"^","{">> \o sup \o <<"}"," ">> \o st.e
     ELSE latex_op \o <<" ">> \o st.e

convert_nary(el, d) ==
  LET r == scan_nary(el.children, 1,
                     [char |-> <<>>, sub |-> <<>>, sup |-> <<>>, e |-> <<>>], d)
  IN IF r.exc # "" THEN Raised(r.exc) ELSE Ok(compose_nary(r.st))

convert_delimiter(el, d) ==
  LET r == convert_children(el.children, 1, d)
  IN IF r.exc # "" THEN r
     ELSE Ok(<<"\\","l","e","f","t","("," ">> \o r.s \o <<" ","\\","r","i","g","h","t",")">>)

\* " & ".join(row_content) for the cells of one row
convert_cells(cells, j, d) ==
  IF j > Len(cells) THEN Ok(<<>>)
  ELSE LET r == convert_element(cells[j], d + 1)
       IN IF r.exc # "" THEN r
          ELSE LET rest == convert_cells(cells, j + 1, d)
               IN IF rest.exc # "" THEN rest
                  ELSE Ok(r.s \o (IF j < Len(cells) THEN <<" ","&"," ">> ELSE <<>>)
                          \o rest.s)

\* the rows (children tagged mr), each followed by " \\" and a newline
convert_rows(ch, i, d) ==
  IF i > Len(ch) THEN Ok(<<>>)
  ELSE IF TagOf(ch[i]) = "mr"
       THEN LET r == convert_cells(ch[i].children, 1, d)
            IN IF r.exc # "" THEN r
               ELSE LET rest == convert_rows(ch, i + 1, d)
                    IN IF rest.exc # "" THEN rest
                       ELSE Ok(r.s \o <<" ","\\","\\","\n">> \o rest.s)
       ELSE convert_rows(ch, i + 1, d)

convert_matrix(el, d) ==
  LET r == convert_rows(el.children, 1, d)
  IN IF r.exc # "" THEN r
     ELSE Ok(<<"\\","b","e","g","i","n","{","m","a","t","r","i","x","}","\n">> \o r.s
             \o <<"\\","e","n","d","{","m","a","t","r","i","x","}">>)

convert_function(el, d) ==
  LET r == Roles(el, {"fName", "e"}, d)
  IN IF r.exc # "" THEN Raised(r.exc)
     ELSE Ok(<<"\\">> \o r.vals["fName"] \o <<"{">> \o r.vals["e"] \o <<"}">>)

\* the conversions that wrap the base in one command
wrap_base(command, el, d) ==
  LET r == Roles(el, {"e"}, d)
  IN IF r.exc # "" THEN Raised(r.exc)
     ELSE Ok(command \o <<"{">> \o r.vals["e"] \o <<"}">>)

convert_accent(el, d) == wrap_base(<<"\\","h","a","t">>, el, d)

convert_bar(el, d) == wrap_base(<<"\\","o","v","e","r","l","i","n","e">>, el, d)

\* return self.convert_element(element): the element itself, not its children
convert_box(el, d) == convert_element(el, d + 1)

convert_border_box(el, d) == wrap_base(<<"\\","b","o","x","e","d">>, el, d)

convert_group_char(el, d) ==
  wrap_base(<<"\\","u","n","d","e","r","b","r","a","c","e">>, el, d)

convert_limit_lower(el, d) ==
  LET r == Roles(el, {"e", "lim"}, d)
  IN IF r.exc # "" THEN Raised(r.exc)
     ELSE Ok(<<"\\","u","n","d","e","r","s","e","t","{">> \o r.vals["lim"]
             \o <<"}","{">> \o r.vals["e"] \o <<"}">>)

convert_limit_upper(el, d) ==
  LET r == Roles(el, {"e", "lim"}, d)
  IN IF r.exc # "" THEN Raised(r.exc)
     ELSE Ok(<<"\\","o","v","e","r","s","e","t","{">> \o r.vals["lim"]
             \o <<"}","{">> \o r.vals["e"] \o <<"}">>)

convert_run(el, d) == convert_children(el.children, 1, d)

\* (the else branch prepending each child: result = convert(child) + result)
convert_unknown_reversed(el, d) ==
  convert_children([i \in 1..Len(el.children) |->
                      el.children[Len(el.children) + 1 - i]], 1, d)

\* the else branch of convert_element: the children, concatenated
convert_unknown(el, d) == convert_children(el.children, 1, d)

\* A call deeper than the interpreter's limit raises RecursionError.
convert_element(el, d) ==
  IF d > RecursionLimit THEN Raised("RecursionError")
  ELSE IF el = None THEN Ok(<<>>)
  ELSE LET tag == TagOf(el) IN
    CASE tag = "oMath" -> convert_omath(el, d + 1)
      [] tag = "f" -> convert_fraction(el, d + 1)
      [] tag = "sSup" -> convert_superscript(el, d + 1)
      [] tag = "sSub" -> convert_subscript(el, d + 1)
      [] tag = "sSubSup" -> convert_subsuperscript(el, d + 1)
      [] tag = "rad" -> convert_radical(el, d + 1)
      [] tag = "nary" -> convert_nary(el, d + 1)
      [] tag = "d" -> convert_delimiter(el, d + 1)
      [] tag = "m" -> convert_matrix(el, d + 1)
      [] tag = "func" -> convert_function(el, d + 1)
      [] tag = "acc" -> convert_accent(el, d + 1)
      [] tag = "bar" -> convert_bar(el, d + 1)
      [] tag = "box" -> convert_box(el, d + 1)
      [] tag = "borderBox" -> convert_border_box(el, d + 1)
      [] tag = "groupChr" -> convert_group_char(el, d + 1)
      [] tag = "limLow" -> convert_limit_lower(el, d + 1)
      [] tag = "limUpp" -> convert_limit_upper(el, d + 1)
      [] tag = "r" -> convert_run(el, d + 1)
      [] tag = "t" -> Ok(convert_text(el))
      [] OTHER -> convert_unknown(el, d)

\* (omml_to_latex whose handler lets the exception through)
omml_to_latex_uncaught(omml_element) ==
  LET r == convert_element(omml_element, 1)
  IN IF r.exc # "" THEN r ELSE Ok(clean_latex_output(r.s))

\* try: return clean_latex_output(convert_element(...))
\* except Exception: return "[Math Formula]"
omml_to_latex(omml_element) ==
  LET r == convert_element(omml_element, 1)
  IN IF r.exc # "" THEN Ok(FALLBACK) ELSE Ok(clean_latex_output(r.s))

----------------------------------------------------------------------------
(* Inputs *)

\* the largest number of children of the enumerated nodes
MaxChildren == 2

SeqsUpTo(S, n) == UNION {[1..k -> S] : k \in 0..n}

Elem(name, children) == Node("m", name, <<>>, <<>>, children)
Leaf(text) == Node("m", "t", text, <<>>, <<>>)
Run(text) == Elem("r", <<Leaf(text)>>)

\* text payloads of the leaves
Payloads == {
  <<"x">>,
  <<"a","b","c">>,
  <<"[","M","a","t","h"," ","F","o","r","m","u","l","a","]">>,
  <<"E","_","x">>,
  <<"D">>,
  <<"l","o","g"," ","x">>,
  <<"a",",",",">>,
  <<"u03b1"," ","+"," ","u03b2"," ","#","(","2","-","1",")">>,
  <<>>,
  <<"u2208">>,
  <<"u221e">>,
  <<"1">>,
  <<"2">>,
  <<"i","=","1">>,
  <<"n">>,
  <<"m","a","x","_","u03b8">>,
  <<"K","L","(","p","|","|","q",")">>,
  <<"#">>,
  <<"x","u2208","A">>,
  <<"\\","i","n","A">>,
  <<"p","_","a","(","y","|","x",")">>,
  <<"E"," ","[","x","]">>,
  <<" "," ","x"," "," ">>,
  <<"u2112","_","x">>,
  <<"\\","#">>,
  <<"#","D">>,
  <<"#","(","1",")","x">>,
  <<"a","r","g"," ","m","a","x","_","x">>,
  <<"a","r","g"," ","m","i","n","_","y">>,
  <<"a","u2286","B">>,
  <<"u222b","f">>,
  <<"x","x","x","x","x","x","x","x","x","x","x","x","x","x","x","x","x","x","x","x","x","x","x","x","x","x","x","x","x","x","x","x","x","x","x","x","x","x","x","x","x","x","x","x","x","x","x","x","x","x">>,
  <<"x","x","x","x","x","x","x","x","x","x","x","x","x","x","x","x","x","x","x","x","x","x","x","x","x","x","x","x","x","x","x","x","x","x","x","x","x","x","x","x","x","x","x","x","x","x","x","x","x","x","x">>,
  <<"#","(">> }

\* a formula that is one run of text, and a bare text leaf
TextElements ==
  {Elem("oMath", <<Run(p)>>) : p \in Payloads} \cup {Leaf(p) : p \in Payloads}

\* the kinds converted by role, with the tags of their roles
RoleKinds == {"f", "sSup", "sSub", "sSubSup", "limLow", "limUpp"}
RoleTags(kind) ==
  CASE kind = "f" -> {"num", "den"}
    [] kind = "sSup" -> {"e", "sup"}
    [] kind = "sSub" -> {"e", "sub"}
    [] kind = "sSubSup" -> {"e", "sub", "sup"}
    [] kind = "limLow" -> {"e", "lim"}
    [] kind = "limUpp" -> {"e", "lim"}

\* children of a role node: every role tag and a property tag, two contents
Operands(kind) ==
  {Elem(tag, <<Run(p)>>) : tag \in RoleTags(kind) \cup {"ctrlPr"},
                           p \in {<<"a">>, <<"b">>}}

RoleElements ==
  UNION {{Elem(kind, kids) : kids \in SeqsUpTo(Operands(kind), MaxChildren)} :
           kind \in RoleKinds}

ChrVals == {<<"u2211">>, <<"u222b">>, <<"u22c3">>, <<"u2208">>, <<"+">>, <<>>}
NaryPrs ==
  {<<>>, <<Elem("naryPr", <<Elem("limLoc", <<>>)>>)>>}
  \cup {<<Elem("naryPr", <<Node("m", "chr", <<>>, v, <<>>)>>)>> : v \in ChrVals}
\* an n-ary node whose operator character is the element-of sign
InNary == Elem("nary", <<Elem("naryPr", <<Node("m", "chr", <<>>, <<u_in>>, <<>>)>>),
                         Elem("e", <<Run(<<"A">>)>>)>>)
NarySubs == {<<>>, <<Elem("sub", <<Run(<<"i","=","1">>)>>)>>, <<Elem("sub", <<>>)>>,
             <<Elem("sub", <<Run(<<"x">>), InNary>>)>>}
NarySups == {<<>>, <<Elem("sup", <<Run(<<"n">>)>>)>>, <<Elem("sup", <<Leaf(<<>>)>>)>>}
NaryBases == {<<>>, <<Elem("e", <<Run(<<"i">>)>>)>>}

NaryElements ==
  {Elem("nary", pr \o sub \o sup \o base) :
     pr \in NaryPrs, sub \in NarySubs, sup \in NarySups, base \in NaryBases}
  \cup {Elem("nary", base \o sup \o sub \o pr) :
     pr \in NaryPrs, sub \in NarySubs, sup \in NarySups, base \in NaryBases}

Half == Elem("f", <<Elem("num", <<Run(<<"1">>)>>), Elem("den", <<Run(<<"2">>)>>)>>)
Box(children) == Elem("box", children)

UnknownKids == {Run(<<"a","b","c">>), Leaf(<<"x">>), Half, Box(<<Run(<<"x">>)>>)}
UnknownElements ==
  {Node(ns, name, <<>>, <<>>, kids) :
     ns \in {"m", ""}, name \in {"sPre", "phant"},
     kids \in SeqsUpTo(UnknownKids, MaxChildren)}

BoxElements == {Box(kids) : kids \in SeqsUpTo({Run(<<"x">>), Half}, MaxChildren)}

\* one or two elements of every other kind, and nested formulas
KindSamples == {
  Elem("rad", <<Elem("deg", <<Run(<<"3">>)>>), Elem("e", <<Run(<<"x">>)>>)>>),
  Elem("rad", <<Elem("deg", <<>>), Elem("e", <<Run(<<"x">>)>>)>>),
  Elem("d", <<Elem("e", <<Run(<<"x">>)>>), Elem("e", <<Run(<<"y">>)>>)>>),
  Elem("m", <<Elem("mPr", <<>>),
              Elem("mr", <<Elem("e", <<Run(<<"a">>)>>), Elem("e", <<Run(<<"b">>)>>)>>),
              Elem("mr", <<Elem("e", <<Run(<<"c">>)>>), Elem("e", <<Run(<<"d">>)>>)>>)>>),
  Elem("func", <<Elem("fName", <<Run(<<"s","i","n">>)>>), Elem("e", <<Run(<<"x">>)>>)>>),
  Elem("acc", <<Elem("e", <<Run(<<"x">>)>>)>>),
  Elem("bar", <<Elem("e", <<Run(<<"x">>)>>)>>),
  Elem("borderBox", <<Elem("e", <<Run(<<"x">>)>>)>>),
  Elem("groupChr", <<Elem("e", <<Run(<<"x">>)>>)>>),
  Elem("oMath", <<Run(<<"y","=">>), Half, Elem("sSup", <<Elem("e", <<Run(<<"x">>)>>),
                                          Elem("sup", <<Half>>)>>)>>),
  Elem("oMath", <<Run(<<"x">>), Box(<<Run(<<"y">>)>>)>>),
  Elem("f", <<Elem("num", <<Box(<<>>)>>), Elem("den", <<Run(<<"2">>)>>)>>),
  Elem("f", <<Elem("fPr", <<Box(<<>>)>>), Elem("num", <<Run(<<"1">>)>>)>>),
  Elem("oMath", <<Elem("nary", <<Elem("naryPr", <<Node("m", "chr", <<>>, <<"u2211">>, <<>>)>>),
                                 Elem("sub", <<Run(<<"i","=","1">>)>>),
                                 Elem("sup", <<Box(<<>>)>>)>>)>>),
  Node("", "f", <<>>, <<>>, <<Node("", "num", <<>>, <<>>, <<Node("", "t", <<"1">>, <<>>, <<>>)>>)>>),
  None }

Elements ==
  TextElements \cup RoleElements \cup NaryElements \cup UnknownElements
  \cup BoxElements \cup KindSamples

----------------------------------------------------------------------------
(* The entry points, called on one element *)

Init ==
  /\ element \in Elements
  /\ pc = "idle"
  /\ ret = Ok(<<>>)
  /\ cur = <<>> /\ prev = <<>> /\ pass = "" /\ runs = 0
  /\ NoDocument

\* a caller invokes convert_element on the element
ConvertElement ==
  /\ pc = "idle"
  /\ ret' = convert_element(element, 0)
  /\ pc' = "converted"
  /\ UNCHANGED <<element, cur, prev, pass, runs, docvars>>

\* convert_omml_to_latex(omml_element): a new converter's omml_to_latex
convert_omml_to_latex ==
  /\ pc = "idle"
  /\ ret' = omml_to_latex(element)
  /\ pc' = "returned"
  /\ UNCHANGED <<element, cur, prev, pass, runs, docvars>>

Next == ConvertElement \/ convert_omml_to_latex

Spec == Init /\ [][Next]_vars

----------------------------------------------------------------------------
(* The text-level passes, applied to one string again and again *)

\* the number of fragments a text is built from, and of runs of a pass
MaxFragments == 2
MaxRuns == 2

Fragments == {
  <<"E","_">>,
  <<"D">>,
  <<"l","o","g"," ">>,
  <<"m","a","x","_">>,
  <<",">>,
  <<" ">>,
  <<"#">>,
  <<"(","1",")">>,
  <<"\\">>,
  <<"x">> }

RECURSIVE Flatten(_,_)
Flatten(ss, i) == IF i > Len(ss) THEN <<>> ELSE ss[i] \o Flatten(ss, i + 1)

Texts == Payloads \cup {Flatten(ss, 1) : ss \in SeqsUpTo(Fragments, MaxFragments)}

InitText ==
  /\ cur \in Texts
  /\ prev = cur /\ pass = "" /\ runs = 0
  /\ element = None /\ pc = "idle" /\ ret = Ok(<<>>)
  /\ NoDocument

\* a pass may run when no other pass has run, at most MaxRuns times
CanRun(name) == pass \in {"", name} /\ runs < MaxRuns

FixMathematicalNotation ==
  /\ CanRun("fix_mathematical_notation")
  /\ cur' = fix_mathematical_notation(cur)
  /\ prev' = cur
  /\ pass' = "fix_mathematical_notation"
  /\ runs' = runs + 1
  /\ UNCHANGED <<element, pc, ret, docvars>>

CleanLatexOutput ==
  /\ CanRun("clean_latex_output")
  /\ cur' = clean_latex_output(cur)
  /\ prev' = cur
  /\ pass' = "clean_latex_output"
  /\ runs' = runs + 1
  /\ UNCHANGED <<element, pc, ret, docvars>>

NextText == FixMathematicalNotation \/ CleanLatexOutput

SpecText == InitText /\ [][NextText]_vars

----------------------------------------------------------------------------
(* The document driver (src/docx2md.py) *)

\* ''.join of the strings of a sequence with a separator between them
RECURSIVE Join(_,_,_)
Join(parts, sep, i) ==
  IF i > Len(parts) THEN <<>>
  ELSE IF i = Len(parts) THEN parts[i]
  ELSE parts[i] \o sep \o Join(parts, sep, i + 1)

\* c * n
Repeat(c, n) == [i \in 1..n |-> c]

\* str.ljust(width)
ljust(s, width) == IF Len(s) >= width THEN s ELSE s \o Repeat(" ", width - Len(s))

\* str.split(): the maximal runs of non-whitespace characters, in order
split(s) ==
  LET starts == {i \in 1..Len(s) : s[i] \notin Space /\ (i = 1 \/ s[i - 1] \in Space)}
      EndOf(i) == Greatest({j \in i..Len(s) : \A k \in i..j : s[k] \notin Space})
      Nth(n) == CHOOSE i \in starts : Cardinality({j \in starts : j < i}) = n - 1
  IN [n \in 1..Cardinality(starts) |-> SubSeq(s, Nth(n), EndOf(Nth(n)))]

\* str(n) of a natural number
RECURSIVE str(_)
str(n) ==
  LET digit(d) == <<"0","1","2","3","4","5","6","7","8","9">>[d + 1]
  IN IF n < 10 THEN <<digit(n)>> ELSE str(n \div 10) \o <<digit(n % 10)>>

\* str.count(c) for a character c
count(s, c) == Cardinality({i \in 1..Len(s) : s[i] = c})

startswith(s, prefix) == Len(s) >= Len(prefix) /\ SubSeq(s, 1, Len(prefix)) = prefix
endswith(s, suffix) ==
  Len(s) >= Len(suffix) /\ SubSeq(s, Len(s) - Len(suffix) + 1, Len(s)) = suffix

\* element.iter(): the element and its descendants in document order
RECURSIVE iter(_)
iter(el) ==
  <<el>> \o Flatten([i \in 1..Len(el.children) |-> iter(el.children[i])], 1)

\* child.tag.endswith('}' + name): a namespaced tag with that local name
TagEndsWith(el, name) == el.tag[1] # "" /\ el.tag[2] = name

\* the embed attribute of a blip is its val (empty when it has none)
find_embedded_image_ids(el) ==
  LET all == iter(el)
      blips(drawing) ==
        LET sub == iter(drawing)
        IN Flatten([k \in 1..Len(sub) |->
                      IF TagEndsWith(sub[k], "blip") /\ sub[k].val # <<>>
                      THEN <<sub[k].val>> ELSE <<>>], 1)
  IN Flatten([k \in 1..Len(all) |->
                IF TagEndsWith(all[k], "drawing") THEN blips(all[k]) ELSE <<>>], 1)

\* the directory the process runs in, and the image directory argument
cwd == <<"/","d">>
image_dir == <<"i","m","a","g","e","s">>

\* save_image: the file name, or None (the empty string here) when reading or
\* writing the image raises
save_image(rel, image_id) ==
  IF ~rel.ok THEN <<>>
  ELSE <<"i","m","a","g","e","_">> \o str(image_id)
       \o (IF rel.ext = <<>> THEN <<".","p","n","g">> ELSE rel.ext)

\* the loop of lines 146-156 from the i-th image id on: the image lines and
\* the counter
RECURSIVE image_loop(_,_,_,_)
image_loop(ids, i, counter, relationship_map) ==
  IF i > Len(ids) THEN [content |-> <<>>, counter |-> counter]
  ELSE LET image_id == ids[i]
           image_filename == IF image_id \in DOMAIN relationship_map
                             THEN save_image(relationship_map[image_id], counter)
                             ELSE <<>>
       IN IF image_filename = <<>>
          THEN image_loop(ids, i + 1, counter, relationship_map)
          ELSE LET image_path == replace(cwd \o <<"/">> \o image_dir \o <<"/">> \o image_filename,
                                         "\\", <<"/">>)
                   line == <<"!","[","i","m","a","g","e","_">> \o str(counter)
                           \o <<"]","(">> \o image_path \o <<")">>
                   rest == image_loop(ids, i + 1, counter + 1, relationship_map)
               IN [content |-> <<line>> \o rest.content, counter |-> rest.counter]

\* the policy of line 209: long, or with a visually large command
IsDisplay(latex_formula) ==
  \/ Len(latex_formula) > 50
  \/ \E cmd \in {<<"\\","f","r","a","c">>, <<"\\","s","u","m">>,
                 <<"\\","i","n","t">>, <<"\\","p","r","o","d">>} :
        Contains(latex_formula, cmd)

omml_to_latex_basic(omml_element) == omml_to_latex(omml_element).s

\* f" $$\n{latex_formula}\n$$ " and f" ${latex_formula}$ "
display_form(latex_formula) == <<" ","$","$","\n">> \o latex_formula \o <<"\n","$","$"," ">>
inline_form(latex_formula) == <<" ","$">> \o latex_formula \o <<"$"," ">>

\* the formula branch of process_run_element with the display policy of the
\* paragraph level
run_formula_by_policy(latex_formula) ==
  IF latex_formula # <<>> /\ latex_formula # FALLBACK
  THEN IF IsDisplay(latex_formula)
       THEN display_form(latex_formula) ELSE inline_form(latex_formula)
  ELSE <<>>

\* lines 237-240: what process_run_element appends for a formula
run_formula(latex_formula) ==
  IF latex_formula # <<>> /\ latex_formula # FALLBACK
  THEN inline_form(latex_formula)
  ELSE <<>>

\* the formula branch of process_paragraph_element_recursively without the
\* test for the fallback text
paragraph_formula_fallback_shown(latex_formula) ==
  IF latex_formula # <<>>
  THEN IF IsDisplay(latex_formula)
       THEN display_form(latex_formula) ELSE inline_form(latex_formula)
  ELSE <<>>

\* lines 206-212: what process_paragraph_element_recursively appends for a
\* formula
paragraph_formula(latex_formula) ==
  IF latex_formula # <<>> /\ latex_formula # FALLBACK
  THEN IF IsDisplay(latex_formula)
       THEN display_form(latex_formula) ELSE inline_form(latex_formula)
  ELSE <<>>

\* what is appended for a formula, in a run and outside
formula_part(latex_formula, in_run) ==
  IF in_run THEN run_formula(latex_formula) ELSE paragraph_formula(latex_formula)

\* the loops of process_run_element (in_run) and of
\* process_paragraph_element_recursively (not in_run) from the i-th child on:
\* the two functions differ in the tag they take first (t or r) and in what
\* they append for a formula
RECURSIVE process_parts(_,_,_)
process_parts(ch, i, in_run) ==
  IF i > Len(ch) THEN <<>>
  ELSE (IF in_run /\ TagOf(ch[i]) = "t" THEN ch[i].text
        ELSE IF ~in_run /\ TagOf(ch[i]) = "r" THEN process_parts(ch[i].children, 1, TRUE)
        ELSE IF TagOf(ch[i]) = "oMath"
        THEN formula_part(omml_to_latex_basic(ch[i]), in_run)
        ELSE process_parts(ch[i].children, 1, in_run))
       \o process_parts(ch, i + 1, in_run)

process_run_element(run_element) == process_parts(run_element.children, 1, TRUE)

process_paragraph_element_recursively(el) == process_parts(el.children, 1, FALSE)

\* paragraph.text of python-docx: the text of the runs that are children of
\* the paragraph
paragraph_text(el) ==
  Flatten([i \in 1..Len(el.children) |->
             IF el.children[i].tag = <<"w", "r">>
             THEN Flatten([j \in 1..Len(el.children[i].children) |->
                             IF el.children[i].children[j].tag = <<"w", "t">>
                             THEN el.children[i].children[j].text ELSE <<>>], 1)
             ELSE <<>>], 1)

\* lines 158-166: the returned list, the counter after the call and the local
\* result_text
paragraph_result(text, images) ==
  [result |-> (IF strip(text) # <<>> THEN <<Join(split(text), <<" ">>, 1)>> ELSE <<>>)
              \o images.content,
   counter |-> images.counter, result_text |-> text]

\* int(name[-1]) if name[-1].isdigit() else 1
heading_level(name) ==
  IF name[Len(name)] \in Digit
  THEN CHOOSE n \in 0..9 : str(n) = <<name[Len(name)]>>
  ELSE 1

\* lines 135-139: the heading line
heading_result(name, para_text, counter) ==
  [result |-> <<Repeat("#", heading_level(name)) \o <<" ">> \o para_text>>,
   counter |-> counter, result_text |-> <<>>]

\* process_paragraph_with_math (result_text is empty when the heading branch
\* returns)
process_paragraph_with_math(paragraph, counter, relationship_map) ==
  IF /\ startswith(paragraph.style, <<"H","e","a","d","i","n","g">>)
     /\ strip(paragraph_text(paragraph.element)) # <<>>
  THEN heading_result(paragraph.style, strip(paragraph_text(paragraph.element)), counter)
  ELSE paragraph_result(
         process_paragraph_element_recursively(paragraph.element),
         image_loop(find_embedded_image_ids(paragraph.element), 1, counter, relationship_map))

\* cell.text.strip() or " "
cell_text(cell) == IF strip(cell) = <<>> THEN <<" ">> ELSE strip(cell)

\* table_to_markdown: rows is the sequence of the rows' cell texts
table_to_markdown(rows) ==
  IF rows = <<>> THEN <<>>
  ELSE LET header == [i \in 1..Len(rows[1]) |-> cell_text(rows[1][i])]
           col_widths ==
             [i \in 1..Len(header) |->
                Greatest({3, Len(header[i])}
                         \cup {Len(cell_text(rows[r][i])) :
                                 r \in {q \in 2..Len(rows) : i <= Len(rows[q])}})]
           Line(cells) ==
             <<"|"," ">>
             \o Join([i \in 1..Len(cells) |-> ljust(cells[i], col_widths[i])],
                     <<" ","|"," ">>, 1)
             \o <<" ","|">>
           separator ==
             <<"|">> \o Join([i \in 1..Len(col_widths) |-> Repeat("-", col_widths[i] + 2)],
                             <<"|">>, 1) \o <<"|">>
           Row(r) ==
             LET n == IF Len(rows[r]) < Len(col_widths) THEN Len(rows[r]) ELSE Len(col_widths)
             IN Line([i \in 1..n |-> cell_text(rows[r][i])])
           md_table == <<Line(header), separator>> \o [r \in 1..(Len(rows) - 1) |-> Row(r + 1)]
       IN Join(md_table, <<"\n">>, 1)

\* the statistics of lines 273-277 over the lines of one paragraph
RECURSIVE count_formulas(_,_,_)
count_formulas(fc, content, i) ==
  IF i > Len(content) THEN fc
  ELSE LET c == content[i]
           next ==
             IF startswith(c, <<"$","$">>) /\ endswith(c, <<"$","$">>)
             THEN [fc EXCEPT !.display = @ + 1]
             ELSE IF count(c, "$") > 0 /\ ~startswith(c, <<"$","$">>)
             THEN [fc EXCEPT !.inline = @ + (count(c, "$") \div 2)]
             ELSE fc
       IN count_formulas(next, content, i + 1)

\* the elements of a document body
WT(text) == Node("w", "t", text, <<>>, <<>>)
WRun(children) == Node("w", "r", <<>>, <<>>, children)
Drawing(id) ==
  Node("w", "drawing", <<>>, <<>>,
       <<Node("wp", "inline", <<>>, <<>>, <<Node("a", "blip", <<>>, id, <<>>)>>)>>)
Hyperlink(children) == Node("w", "hyperlink", <<>>, <<>>, children)

rId1 == <<"r","I","d","1">>
rId2 == <<"r","I","d","2">>
rId3 == <<"r","I","d","3">>
rId9 == <<"r","I","d","9">>

\* doc.part.rels: rId1 is a PNG image, rId2 an image that cannot be saved,
\* rId3 an image whose target has no extension; rId9 is not a relationship
rels ==
  [id \in {rId1, rId2, rId3} |->
     [ok |-> id # rId2, ext |-> IF id = rId1 THEN <<".","j","p","g">> ELSE <<>>]]

\* formulas: inline, with a fraction, failing, of 51 and of 50 characters, empty
FInline == Elem("oMath", <<Run(<<"x">>)>>)
FFrac == Elem("oMath", <<Half>>)
FBroken == Elem("oMath", <<Box(<<Run(<<"x">>)>>)>>)
FLong == Elem("oMath", <<Run(Repeat("x", 51))>>)
F50 == Elem("oMath", <<Run(Repeat("x", 50))>>)
FEmpty == Elem("oMath", <<>>)

\* the children a paragraph is built from
ParaItems == {
  WRun(<<WT(<<"a","b">>)>>),
  FFrac, FBroken, FLong, F50,
  WRun(<<FFrac>>),
  WRun(<<WT(<<" ","c"," "," ">>), FBroken, FEmpty, FInline>>),
  WRun(<<Drawing(rId1)>>),
  Hyperlink(<<WRun(<<WT(<<"b">>)>>), FFrac,
              WRun(<<Drawing(rId3), Drawing(rId2), Drawing(rId9)>>)>>) }

\* the children a heading is built from
HeadingItems == {WRun(<<WT(<<"a","b">>)>>), FFrac, WRun(<<Drawing(rId1)>>)}

MaxParaItems == 2
MaxBlocks == 2

ParagraphBlock(style, children) ==
  [kind |-> "p", style |-> style,
   element |-> Node("w", "p", <<>>, <<>>, children), rows |-> <<>>]
TableBlock(rows) == [kind |-> "tbl", style |-> <<>>, element |-> None, rows |-> rows]

Paragraphs ==
  {ParagraphBlock(<<"N","o","r","m","a","l">>, kids) :
     kids \in SeqsUpTo(ParaItems, MaxParaItems)}
  \cup {ParagraphBlock(<<"H","e","a","d","i","n","g"," ","2">>, kids) :
     kids \in SeqsUpTo(HeadingItems, MaxParaItems)}

Tables == {
  TableBlock(<<>>),
  TableBlock(<< <<<<"h","1">>, <<" ">>>> >>),
  TableBlock(<< <<<<"a">>, <<"b","b","b","b">>>>, <<<<"c">>>> >>),
  TableBlock(<< <<<<"a">>>>, <<<<"c","c","c","c","c">>, <<"d">>>> >>) }

\* blocks for the documents of several blocks
SampleBlocks == {
  ParagraphBlock(<<"N","o","r","m","a","l">>, <<WRun(<<WT(<<"a","b">>)>>)>>),
  ParagraphBlock(<<"N","o","r","m","a","l">>,
                 <<WRun(<<Drawing(rId1)>>), WRun(<<WT(<<"a","b">>)>>)>>),
  ParagraphBlock(<<"N","o","r","m","a","l">>, <<FFrac, WRun(<<Drawing(rId3)>>)>>),
  ParagraphBlock(<<"H","e","a","d","i","n","g">>, <<WRun(<<WT(<<"T">>)>>)>>),
  TableBlock(<< <<<<"h","1">>, <<" ">>>> >>) }

Docs ==
  {[blocks |-> <<b>>, rels |-> rels] : b \in Paragraphs \cup Tables}
  \cup {[blocks |-> bs, rels |-> rels] : bs \in SeqsUpTo(SampleBlocks, MaxBlocks)}

\* docx_to_markdown_with_formulas before its loop
InitDoc ==
  /\ doc \in Docs
  /\ block = 1
  /\ md_content = <<>>
  /\ image_id_counter = 1
  /\ formula_count = [inline |-> 0, display |-> 0]
  /\ para_content = <<>> /\ result_text = <<>> /\ output_md = <<>>
  /\ pc = "blocks"
  /\ element = None /\ ret = Ok(<<>>)
  /\ cur = <<>> /\ prev = <<>> /\ pass = "" /\ runs = 0

\* one turn of the loop of line 267 on a paragraph
ProcessParagraph ==
  /\ pc = "blocks"
  /\ block <= Len(doc.blocks)
  /\ doc.blocks[block].kind = "p"
  /\ \E r \in {process_paragraph_with_math(doc.blocks[block], image_id_counter, doc.rels)} :
        /\ para_content' = r.result
        /\ result_text' = r.result_text
        /\ image_id_counter' = r.counter
        /\ formula_count' = count_formulas(formula_count, r.result, 1)
        /\ md_content' = md_content \o r.result
  /\ block' = block + 1
  /\ UNCHANGED <<doc, output_md, element, pc, ret, cur, prev, pass, runs>>

\* one turn of the loop of line 267 on a table
ProcessTable ==
  /\ pc = "blocks"
  /\ block <= Len(doc.blocks)
  /\ doc.blocks[block].kind = "tbl"
  /\ LET md_table == table_to_markdown(doc.blocks[block].rows)
     IN md_content' = IF md_table # <<>> THEN Append(md_content, md_table) ELSE md_content
  /\ block' = block + 1
  /\ UNCHANGED <<doc, image_id_counter, formula_count, para_content, result_text,
                 output_md, element, pc, ret, cur, prev, pass, runs>>

\* after the loop: the markdown file is written
WriteMarkdown ==
  /\ pc = "blocks"
  /\ block > Len(doc.blocks)
  /\ output_md' = Join(md_content, <<"\n","\n">>, 1)
  /\ pc' = "written"
  /\ UNCHANGED <<doc, block, md_content, image_id_counter, formula_count,
                 para_content, result_text, element, ret, cur, prev, pass, runs>>

NextDoc == ProcessParagraph \/ ProcessTable \/ WriteMarkdown

SpecDoc == InitDoc /\ [][NextDoc]_vars

----------------------------------------------------------------------------
(* Properties of the transducer and of its entry point *)

\* the tags convert_element dispatches on
KnownTags == {"oMath", "f", "sSup", "sSub", "sSubSup", "rad", "nary", "d", "m",
              "func", "acc", "bar", "box", "borderBox", "groupChr", "limLow",
              "limUpp", "r", "t"}

\* the conversions of the children of el, one by one
ChildResults(el) ==
  [i \in 1..Len(el.children) |-> convert_element(el.children[i], 2)]

RECURSIVE ConcatAll(_,_)
ConcatAll(rs, i) == IF i > Len(rs) THEN <<>> ELSE rs[i].s \o ConcatAll(rs, i + 1)

\* the conversion of the last child of el tagged role, "" when there is none
LastWith(el, role) ==
  LET idx == {i \in 1..Len(el.children) : TagOf(el.children[i]) = role}
  IN IF idx = {} THEN <<>> ELSE convert_element(el.children[Greatest(idx)], 2).s

\* some child of el with a tag in roles fails to convert
RoleRaises(el, roles) ==
  \E i \in 1..Len(el.children) :
     /\ TagOf(el.children[i]) \in roles
     /\ convert_element(el.children[i], 2).exc # ""

\* C1: convert_element returns a string, without raising, for every tree
\* over the kind vocabulary
C1_Totality == pc = "converted" => ret.exc = ""

\* C2: omml_to_latex never lets an exception through: it returns the cleaned
\* conversion when the conversion succeeds and exactly the fallback string,
\* with nothing of the formula, when it fails
C2_ErrorContainment ==
  pc = "returned" =>
    /\ ret.exc = ""
    /\ LET r == convert_element(element, 1)
       IN IF r.exc # "" THEN ret.s = <<"[","M","a","t","h"," ","F","o","r","m","u","l","a","]">>
          ELSE ret.s = clean_latex_output(r.s)

C2_Witness ==
  /\ pc = "returned"
  /\ convert_element(element, 1).exc # ""
  /\ Len(element.children) > 0
  /\ ret = Ok(<<"[","M","a","t","h"," ","F","o","r","m","u","l","a","]">>)

\* C3: a box node converts to the concatenation of the conversions of its
\* children, with nothing added and no failure
C3_BoxPassThrough ==
  (pc = "converted" /\ TagOf(element) = "box") =>
    LET rs == ChildResults(element)
    IN (\A i \in 1..Len(rs) : rs[i].exc = "") => ret = Ok(ConcatAll(rs, 1))

\* C4: a node of an unrecognised kind converts to the concatenation of the
\* conversions of its children, in child order (and fails when one of them
\* fails)
C4_GracefulDegradation ==
  (pc = "converted" /\ element # None /\ TagOf(element) \notin KnownTags) =>
    LET rs == ChildResults(element)
    IN IF \E i \in 1..Len(rs) : rs[i].exc # "" THEN ret.exc # ""
       ELSE ret = Ok(ConcatAll(rs, 1))

C4_Witness ==
  /\ pc = "converted"
  /\ TagOf(element) = "sPre"
  /\ element.children = <<Run(<<"a","b","c">>), Half>>
  /\ ret = Ok(<<"a","b","c","\\","f","r","a","c","{","1","}","{","2","}">>)

\* C5: omml_to_latex returns "[Math Formula]" only when the conversion
\* raised, never for a tree whose conversion succeeds
C5_FallbackDistinguishable ==
  (pc = "returned" /\ convert_element(element, 1).exc = "") =>
    ret.s # <<"[","M","a","t","h"," ","F","o","r","m","u","l","a","]">>

\* the template of a role kind, filled role by role
RoleTemplate(el) ==
  LET kind == TagOf(el)
      v(role) == LastWith(el, role)
  IN CASE kind = "f" ->
            <<"\\","f","r","a","c","{">> \o v("num") \o <<"}","{">> \o v("den") \o <<"}">>
       [] kind = "sSup" ->
            <<"{">> \o v("e") \o <<"}","^","{">> \o v("sup") \o <<"}">>
       [] kind = "sSub" ->
            <<"{">> \o v("e") \o <<"}","_","{">> \o v("sub") \o <<"}">>
       [] kind = "sSubSup" ->
            <<"{">> \o v("e") \o <<"}","_","{">> \o v("sub") \o <<"}","^","{">>
            \o v("sup") \o <<"}">>
       [] kind = "limLow" ->
            <<"\\","u","n","d","e","r","s","e","t","{">> \o v("lim") \o <<"}","{">>
            \o v("e") \o <<"}">>
       [] kind = "limUpp" ->
            <<"\\","o","v","e","r","s","e","t","{">> \o v("lim") \o <<"}","{">>
            \o v("e") \o <<"}">>

\* C9: a fraction, superscript, subscript, sub-and-superscript, lower-limit
\* or upper-limit node converts to its template filled with the conversions
\* of the children found by tag, wherever they stand among the children (the
\* last one when a tag occurs twice); a missing role gives "" and a child
\* with another tag gives nothing
C9_RoleTemplates ==
  (pc = "converted" /\ TagOf(element) \in RoleKinds) =>
    IF RoleRaises(element, RoleTags(TagOf(element))) THEN ret.exc # ""
    ELSE ret = Ok(RoleTemplate(element))

C9_Witness ==
  /\ pc = "converted"
  /\ TagOf(element) = "f"
  /\ element.children = <<Elem("den", <<Run(<<"b">>)>>), Elem("num", <<Run(<<"a">>)>>)>>
  /\ ret = Ok(<<"\\","f","r","a","c","{","a","}","{","b","}">>)

\* the operator character of an n-ary node: the val of the last chr of the
\* properties nodes, "" when there is none
OpChar(el) ==
  LET ch == el.children
      chrs == {<<i, j>> \in (1..Len(ch)) \X (1..MaxChildren + 4) :
                 /\ TagOf(ch[i]) = "naryPr"
                 /\ j <= Len(ch[i].children)
                 /\ TagOf(ch[i].children[j]) = "chr"}
  IN IF chrs = {} THEN <<>>
     ELSE LET last == CHOOSE c \in chrs :
                        \A o \in chrs : o[1] < c[1] \/ (o[1] = c[1] /\ o[2] <= c[2])
          IN ch[last[1]].children[last[2]].val

\* the fixed table of operator characters
OpText(char) ==
  IF char \in {<<"u2211">>, <<"u222b">>, <<"u220f">>, <<"u22c3">>, <<"u22c2">>,
               <<"u22c1">>, <<"u22c0">>}
  THEN [c \in {"u2211", "u222b", "u220f", "u22c3", "u22c2", "u22c1", "u22c0"} |->
          CASE c = "u2211" -> <<"\\","s","u","m">>
            [] c = "u222b" -> <<"\\","i","n","t">>
            [] c = "u220f" -> <<"\\","p","r","o","d">>
            [] c = "u22c3" -> <<"\\","b","i","g","c","u","p">>
            [] c = "u22c2" -> <<"\\","b","i","g","c","a","p">>
            [] c = "u22c1" -> <<"\\","b","i","g","v","e","e">>
            [] c = "u22c0" -> <<"\\","b","i","g","w","e","d","g","e">>][char[1]]
  ELSE char

\* op_{sub}^{sup} base and its three shorter forms
NaryForm(op, sub, sup, base) ==
  op \o (IF sub # <<>> THEN <<"_","{">> \o sub \o <<"}">> ELSE <<>>)
     \o (IF sup # <<>> THEN <<"^","{">> \o sup \o <<"}">> ELSE <<>>)
     \o <<" ">> \o base

\* C10 as stated: the n-ary node converts to the composition of the mapped
\* operator with exactly the conversions of the children tagged sub, sup, e
C10_NaryExact ==
  (pc = "converted" /\ TagOf(element) = "nary" /\ ret.exc = "") =>
    ret.s = NaryForm(OpText(OpChar(element)), LastWith(element, "sub"),
                     LastWith(element, "sup"), LastWith(element, "e"))

\* C10, amended: the same composition, where sup and base are exactly the
\* conversions of the children tagged sup and e and sub is the conversion of
\* the child tagged sub passed through clean_subscript_notation, which
\* changes it only where an element-of sign is left in it
C10_NaryCleaned ==
  (pc = "converted" /\ TagOf(element) = "nary" /\ ret.exc = "") =>
    LET sub == LastWith(element, "sub")
    IN ret.s = NaryForm(OpText(OpChar(element)),
                        IF \E i \in 1..Len(sub) : sub[i] = "u2208"
                        THEN clean_subscript_notation(sub) ELSE sub,
                        LastWith(element, "sup"), LastWith(element, "e"))

\* C6: cleaning a cleaned string changes nothing:
\* clean_latex_output(clean_latex_output(s)) = clean_latex_output(s)
C6_CleanIdempotent ==
  (pass = "clean_latex_output" /\ runs >= 2) => cur = prev

\* C7: fix_mathematical_notation applied to its own output changes nothing
C7_FixIdempotent ==
  (pass = "fix_mathematical_notation" /\ runs >= 2) => cur = prev

\* the payload has E_ at a word boundary
HasWordE(s) ==
  \E i \in 1..(Len(s) - 1) :
     s[i] = "E" /\ s[i + 1] = "_" /\ (i = 1 \/ s[i - 1] \notin WordChar)

\* C8: a text leaf with E_ at a word boundary and without \mathbb{E} converts
\* to a text with \mathbb{E}_ and without the doubled \mathbb\mathbb{E}
C8_SingleWrapper ==
  (/\ pc = "converted"
   /\ TagOf(element) = "t"
   /\ HasWordE(element.text)
   /\ ~Contains(element.text, <<"\\","m","a","t","h","b","b","{","E","}">>)) =>
    /\ ret.exc = ""
    /\ Contains(ret.s, <<"\\","m","a","t","h","b","b","{","E","}","_">>)
    /\ ~Contains(ret.s, <<"\\","m","a","t","h","b","b","\\","m","a","t","h","b","b","{","E","}">>)

C10_Witness ==
  /\ pc = "converted"
  /\ TagOf(element) = "nary"
  /\ OpChar(element) = <<"u2211">>
  /\ ret = Ok(<<"\\","s","u","m","_","{","i","=","1","}","^","{","n","}"," ","i">>)

\* the keys of the symbol table (each key is one character)
SymbolKeys == {symbol_map[i][1] : i \in 1..Len(symbol_map)}

\* every character that is a key replaced by its mapped string, all at once
RECURSIVE SubstituteAll(_,_)
SubstituteAll(text, i) ==
  IF i > Len(text) THEN <<>>
  ELSE (IF text[i] \in SymbolKeys
        THEN symbol_map[CHOOSE k \in 1..Len(symbol_map) : symbol_map[k][1] = text[i]][2]
        ELSE <<text[i]>>) \o SubstituteAll(text, i + 1)

\* C11: the conversion of a text leaf contains no key of the symbol table, and
\* it is the hash stripping and notation fix of the payload with every
\* occurrence of every key replaced by its mapped string at once, so the
\* order in which the keys are applied makes no difference
C11_SymbolsSubstituted ==
  (pc = "converted" /\ TagOf(element) = "t") =>
    /\ ret.exc = ""
    /\ \A i \in 1..Len(ret.s) : ret.s[i] \notin SymbolKeys
    /\ ret.s = fix_mathematical_notation(
                 re_sub(p_hash, <<>>,
                        re_sub(p_eqno, <<>>, SubstituteAll(element.text, 1))))

\* C11: a leaf with two different keys in its payload has been converted
C11_Witness ==
  /\ pc = "converted" /\ TagOf(element) = "t"
  /\ \E i, j \in 1..Len(element.text) :
        /\ element.text[i] \in SymbolKeys /\ element.text[j] \in SymbolKeys
        /\ element.text[i] # element.text[j]
  /\ Contains(ret.s, <<"\\","a","l","p","h","a">>)
  /\ Contains(ret.s, <<"\\","b","e","t","a">>)


\* a hash mark at position i of s that opens a non-empty parenthesised group
OpensGroup(s, i) ==
  /\ s[i] = "#" /\ i + 1 <= Len(s) /\ s[i + 1] = "("
  /\ \E j \in (i + 3)..Len(s) :
        s[j] = ")" /\ \A k \in (i + 2)..(j - 1) : s[k] # ")"

\* the text leaves whose payload has a hash mark
HashLeaf == pc = "converted" /\ TagOf(element) = "t" /\ Contains(element.text, <<"#">>)

\* C12 as stated: in the conversion of a text leaf no hash mark opens a
\* non-empty parenthesised group, and every hash mark left is immediately
\* followed by a letter
C12_HashFollowedByLetter ==
  HashLeaf =>
    \A i \in 1..Len(ret.s) :
       ret.s[i] = "#" =>
         /\ ~OpensGroup(ret.s, i)
         /\ i < Len(ret.s) /\ ret.s[i + 1] \in Letter

\* C12 amended: in the conversion of a text leaf no hash mark opens a
\* non-empty parenthesised group, and every hash mark left is immediately
\* preceded by a backslash (the escaped hash is kept), or immediately followed
\* by a letter or by the backslash of the command that the notation fix put in
\* place of that letter
C12_HashArtifacts ==
  HashLeaf =>
    /\ ret.exc = ""
    /\ \A i \in 1..Len(ret.s) :
         ret.s[i] = "#" =>
           /\ ~OpensGroup(ret.s, i)
           /\ \/ i > 1 /\ ret.s[i - 1] = "\\"
              \/ i < Len(ret.s) /\ ret.s[i + 1] \in Letter \cup {"\\"}

\* C12: the leaf #D has been converted: its hash mark is kept and is followed
\* by the command the notation fix wrote
C12_Witness ==
  /\ pc = "converted" /\ TagOf(element) = "t"
  /\ element.text = <<"#","D">>
  /\ ret = Ok(<<"#","\\","m","a","t","h","c","a","l","{","D","}">>)


\* no whitespace at either end, and every whitespace run is one space
Normalised(s) ==
  /\ s # <<>> => (s[1] \notin Space /\ s[Len(s)] \notin Space)
  /\ \A i \in 1..Len(s) : s[i] \in Space => s[i] = " "
  /\ \A i \in 1..(Len(s) - 1) : ~(s[i] \in Space /\ s[i + 1] \in Space)

EndsWithComma(s) == s # <<>> /\ s[Len(s)] = ","

\* a run of clean_latex_output on a non-empty string has just finished
Cleaned == pass = "clean_latex_output" /\ prev # <<>>

\* C16 as stated: the cleaned output of a non-empty string has no whitespace
\* at either end, no whitespace run other than one space, and no comma at
\* its end
C16_NormalForm ==
  Cleaned => (Normalised(cur) /\ ~EndsWithComma(cur))

\* the commands that have a listed command as a proper prefix and that the
\* symbol table or the n-ary operator table produce
LongCommands == {<<"\\","i","n","t">>, <<"\\","i","n","f","t","y">>,
                 <<"\\","s","u","b","s","e","t","e","q">>, <<"\\","s","u","p","s","e","t","e","q">>}

\* C17: a command with a listed command as its prefix that is in the
\* transducer's output for a formula is still in the result of omml_to_latex
C17_CommandsIntact ==
  pc = "returned" =>
    \A cmd \in LongCommands :
       (convert_element(element, 0).exc = "" /\ Contains(convert_element(element, 0).s, cmd))
         => Contains(ret.s, cmd)

\* the payload of a bare text leaf or of a formula that is one run of text
IsTextElement(el) ==
  \/ TagOf(el) = "t"
  \/ /\ TagOf(el) = "oMath" /\ Len(el.children) = 1
     /\ TagOf(el.children[1]) = "r" /\ Len(el.children[1].children) = 1
     /\ TagOf(el.children[1].children[1]) = "t"
PayloadOf(el) ==
  IF TagOf(el) = "t" THEN el.text ELSE el.children[1].children[1].text

\* the word log followed by whitespace
HasWordLog(s) ==
  \E i \in 1..(Len(s) - 3) :
     /\ SubSeq(s, i, i + 2) = <<"l","o","g">> /\ s[i + 3] \in Space
     /\ (i = 1 \/ s[i - 1] \notin WordChar)

\* C18: for a formula whose text has the word log followed by whitespace and
\* no backslash, the result of omml_to_latex contains \log and never \\log
C18_SingleBackslashLog ==
  (/\ pc = "returned" /\ IsTextElement(element)
   /\ HasWordLog(PayloadOf(element))
   /\ ~Contains(PayloadOf(element), <<"\\">>)) =>
    /\ Contains(ret.s, <<"\\","l","o","g">>)
    /\ ~Contains(ret.s, <<"\\","\\","l","o","g">>)

\* arg, whitespace, then max_ (or min_) starting at a word boundary
HasArg(s, op) ==
  \E i \in 1..Len(s), j \in 1..Len(s) :
     /\ i + 3 <= j /\ j + 3 <= Len(s)
     /\ SubSeq(s, i, i + 2) = <<"a","r","g">>
     /\ (i = 1 \/ s[i - 1] \notin WordChar)
     /\ \A k \in (i + 3)..(j - 1) : s[k] \in Space
     /\ SubSeq(s, j, j + 3) = op \o <<"_">>

\* C19: fix_mathematical_notation rewrites arg max_ and arg min_ at a word
\* boundary to \operatorname*{arg\,max}_ and \operatorname*{arg\,min}_
C19_ArgMaxRewritten ==
  (pass = "fix_mathematical_notation" /\ runs = 1) =>
    \A op \in {<<"m","a","x">>, <<"m","i","n">>} :
       HasArg(prev, op) =>
         Contains(cur, <<"\\","o","p","e","r","a","t","o","r","n","a","m","e","*","{","a","r","g","\\",",">> \o op \o <<"}","_">>)


----------------------------------------------------------------------------
(* Properties of the document driver *)

\* the paragraph of the last turn of the loop, when that turn was a paragraph
LastBlock == doc.blocks[block - 1]
ParagraphDone ==
  /\ pc \in {"blocks", "written"} /\ block > 1 /\ block <= Len(doc.blocks) + 1
  /\ LastBlock.kind = "p"

\* the heading branch of process_paragraph_with_math was taken
IsHeadingLine(b) ==
  /\ startswith(b.style, <<"H","e","a","d","i","n","g">>)
  /\ strip(paragraph_text(b.element)) # <<>>

\* the element's text went through process_paragraph_element_recursively
TextDone == ParagraphDone /\ ~IsHeadingLine(LastBlock)

\* a formula whose conversion raises, so that omml_to_latex returns the fallback
Failing(el) == TagOf(el) = "oMath" /\ convert_element(el, 0).exc # ""

\* the formulas of an element that are not inside another formula
RECURSIVE Formulas(_)
Formulas(el) ==
  IF TagOf(el) = "oMath" THEN {el}
  ELSE UNION {Formulas(el.children[i]) : i \in 1..Len(el.children)}

\* the element without its failing formulas
RECURSIVE Pruned(_)
Pruned(el) ==
  IF TagOf(el) = "oMath" THEN el
  ELSE LET keep == {i \in 1..Len(el.children) : ~Failing(el.children[i])}
           Nth(n) == CHOOSE i \in keep : Cardinality({k \in keep : k < i}) = n - 1
       IN [el EXCEPT !.children = [n \in 1..Cardinality(keep) |-> Pruned(el.children[Nth(n)])]]

HasFailing(el) == \E f \in Formulas(el) : Failing(f)

\* C13 as stated: when a formula of the paragraph fails, the paragraph's
\* output contains the text [Math Formula]
C13_FallbackVisible ==
  (ParagraphDone /\ HasFailing(LastBlock.element)) =>
    \E i \in 1..Len(para_content) : Contains(para_content[i], FALLBACK)

\* C13 amended: when a formula of the paragraph fails, nothing is emitted for
\* it (the fallback text is not in the output) and the other children are
\* processed as if the formula were not there
C13_FailedFormulaOmitted ==
  (TextDone /\ HasFailing(LastBlock.element)) =>
    /\ result_text = process_paragraph_element_recursively(Pruned(LastBlock.element))
    /\ ~Contains(result_text, FALLBACK)
    /\ \A i \in 1..Len(para_content) : ~Contains(para_content[i], FALLBACK)

\* C13: a paragraph with a failing formula followed by a run of text has been
\* processed
C13_Witness ==
  /\ TextDone
  /\ LastBlock.element.children = <<FBroken, WRun(<<WT(<<"a","b">>)>>)>>
  /\ result_text = <<"a","b">>
  /\ para_content = <<<<"a","b">>>>

\* the text of the children from the i-th on, in document order: the text of
\* the text leaves of runs, and every non-empty non-fallback formula in its
\* display form when the policy asks for it (in runs only when run_policy
\* holds) and in its inline form otherwise
RenderedFormula(f, by_policy) ==
  IF f = <<>> \/ f = FALLBACK THEN <<>>
  ELSE IF by_policy /\ IsDisplay(f) THEN display_form(f) ELSE inline_form(f)

RECURSIVE Rendered(_,_,_,_)
Rendered(ch, i, in_run, run_policy) ==
  IF i > Len(ch) THEN <<>>
  ELSE (CASE TagOf(ch[i]) = "oMath" ->
               RenderedFormula(omml_to_latex(ch[i]).s, ~in_run \/ run_policy)
          [] TagOf(ch[i]) = "t" /\ in_run -> ch[i].text
          [] TagOf(ch[i]) = "r" /\ ~in_run -> Rendered(ch[i].children, 1, TRUE, run_policy)
          [] OTHER -> Rendered(ch[i].children, 1, in_run, run_policy))
       \o Rendered(ch, i + 1, in_run, run_policy)

\* C14 as stated: every formula, in a run or not, is emitted in the display
\* form exactly when it is longer than 50 characters or has \frac, \sum, \int
\* or \prod, and in the inline form otherwise
C14_PolicyEverywhere ==
  TextDone => result_text = Rendered(LastBlock.element.children, 1, FALSE, TRUE)

\* C14 amended: a formula that is not inside a run is emitted in the display
\* form exactly when it is longer than 50 characters or has \frac, \sum, \int
\* or \prod, and in the inline form otherwise; a formula inside a run is
\* always emitted in the inline form; the paragraph's line is that text with
\* every whitespace run, the newlines of the display form too, made one space
C14_PolicyOutsideRuns ==
  TextDone =>
    /\ result_text = Rendered(LastBlock.element.children, 1, FALSE, FALSE)
    /\ strip(result_text) # <<>> =>
         /\ para_content # <<>>
         /\ para_content[1] = Join(split(result_text), <<" ">>, 1)
         /\ ~Contains(para_content[1], <<"\n">>)

\* C14: a paragraph with a fraction inside a run and a paragraph with the
\* fraction outside a run have been processed
C14_Witness ==
  /\ TextDone
  /\ \/ /\ LastBlock.element.children = <<WRun(<<FFrac>>)>>
        /\ result_text = inline_form(<<"\\","f","r","a","c","{","1","}","{","2","}">>)
     \/ /\ LastBlock.element.children = <<FFrac>>
        /\ result_text = display_form(<<"\\","f","r","a","c","{","1","}","{","2","}">>)

\* the kinds of the parts of a paragraph in document order: "text" for a text
\* leaf of a run with visible text and for an emitted formula, "image" for
\* an embedded image
TextKind(s) == IF s = <<>> \/ s = FALLBACK THEN <<>> ELSE <<"text">>

RECURSIVE SourceKinds(_,_,_)
SourceKinds(ch, i, in_run) ==
  IF i > Len(ch) THEN <<>>
  ELSE (CASE TagOf(ch[i]) = "oMath" -> TextKind(omml_to_latex(ch[i]).s)
          [] TagOf(ch[i]) = "t" /\ in_run -> TextKind(strip(ch[i].text))
          [] TagEndsWith(ch[i], "drawing") ->
               [k \in 1..Len(find_embedded_image_ids(ch[i])) |-> "image"]
          [] TagOf(ch[i]) = "r" /\ ~in_run -> SourceKinds(ch[i].children, 1, TRUE)
          [] OTHER -> SourceKinds(ch[i].children, 1, in_run))
       \o SourceKinds(ch, i + 1, in_run)

\* adjacent parts of text make one line of text
RECURSIVE Collapse(_)
Collapse(ks) ==
  IF Len(ks) <= 1 THEN ks
  ELSE IF ks[1] = "text" /\ ks[2] = "text" THEN Collapse(Tail(ks))
  ELSE <<ks[1]>> \o Collapse(Tail(ks))

\* the kinds of the lines a paragraph returned
OutputKinds(lines) ==
  [i \in 1..Len(lines) |->
     IF startswith(lines[i], <<"!","[","i","m","a","g","e","_">>) THEN "image" ELSE "text"]

\* every image of the element has a relationship and can be saved
ImagesSaved(el) ==
  \A k \in 1..Len(find_embedded_image_ids(el)) :
     /\ find_embedded_image_ids(el)[k] \in DOMAIN doc.rels
     /\ doc.rels[find_embedded_image_ids(el)[k]].ok

\* C15: the lines of a processed paragraph whose images can all be saved are
\* its text, formulas and images in the order of the source, no image left
\* out, and the lines of the blocks follow the order of the blocks
C15_OrderPreserved ==
  (ParagraphDone /\ ImagesSaved(LastBlock.element)) =>
    /\ OutputKinds(para_content) = Collapse(SourceKinds(LastBlock.element.children, 1, FALSE))
    /\ Len(md_content) >= Len(para_content)
    /\ SubSeq(md_content, Len(md_content) - Len(para_content) + 1, Len(md_content)) = para_content

====
